---- MODULE Spec2Model ----
(***************************************************************************)
(* A model of the goofy-goobers Maelstrom nodes: the envelope constructors *)
(* of message.rs, the per-peer delivery handler and main loop of           *)
(* broadcast.rs, the CAS-coordinated counter of counter.rs and the         *)
(* replicated log of kafka.rs.  Each workload is its own program, so each  *)
(* has its own specification over the shared variables; the variables a    *)
(* workload does not own stay at their initial value.                      *)
(***************************************************************************)
EXTENDS Integers, Sequences, FiniteSets, TLC

(* ------------------------------------------------------------------ *)
(* Bounds of the model                                                 *)
(* ------------------------------------------------------------------ *)
\* envelopes the threads of the envelope specification construct
MaxEnvelopes == 3

(* ------------------------------------------------------------------ *)
(* Names                                                               *)
(* ------------------------------------------------------------------ *)
\* Option::None of msg_id / in_reply_to (Option<usize>)
None == -1

\* the value of a variable that belongs to another workload
Unused == "unused"

\* identifiers beginning with 'n' are cluster peers (Envelope::is_from_node);
\* every other identifier is a client or a service
NodeNames == {"n1", "n2", "n3"}
SEQ_KV == "seq-kv"

is_from_node(env) == env.src \in NodeNames

VARIABLES
  MESSAGE_ID,      \* message.rs MESSAGE_ID, one counter per process
  th_held,         \* envelope spec: the envelope a thread constructed and has not sent yet
  output_queue,    \* envelope spec: the channel into the OutputHandler thread
  wire,            \* envelope spec: the lines the OutputHandler wrote, in order
  constructed,     \* envelope spec: every construction, in order, with its request
  network,         \* envelopes written by one node and not yet read by their destination
  stdout,          \* the node that took the last step and the lines it wrote in it
  max_written,     \* per node: the largest msg_id it has written so far (None: nothing yet)
  all_node_ids,    \* broadcast: the node_ids of the harness's init message
  harness_topology,\* broadcast: the topology the harness sends
  bc_phase,        \* broadcast: per node, which harness messages it has handled
  node_topology,   \* broadcast: per node, main's node_topology
  messages,        \* broadcast: per node, main's messages set
  node_handlers,   \* broadcast: per node, main's node_handlers map
  replies_seen,    \* broadcast: per node and peer, the in_reply_to values received so far
  client_sent,     \* broadcast: the values clients have broadcast
  client_reads,    \* broadcast: the number of reads clients have made
  lost,            \* number of envelopes the network has dropped
  kv_store,        \* seq-kv: the value under each key (None: the key does not exist)
  ct_phase,        \* counter: per node, which harness messages it has handled
  ct_node,         \* counter: per node, main's to_add, value, last_cas_to, last_cas_id, cas_outstanding
  ct_acked,        \* counter: the sum of the deltas of the adds answered add_ok
  ct_read_ok,      \* counter: per node, the values of the read_ok replies to clients, in order
  ct_adds,         \* counter: the number of adds clients have made
  ct_probes,       \* counter: per node, the number of idle timeouts taken
  kf_phase,        \* kafka: per node, "start", "running" or "panicked"
  transaction_log, \* kafka: per node, main's transaction_log
  poll_replies,    \* kafka: per node, main's poll_replies
  main_pc,         \* kafka: per node, where main is: at the loop's recv or blocked in get_xid
  xid_ready,       \* kafka: per node, the xid in get_xid's response channel (None: empty)
  xa_pc,           \* kafka: per node, where the XidAssigner thread is
  last_seen_xid,   \* kafka: per node, XidAssigner.last_seen_xid
  kf_assigned,     \* kafka: the xids generate_xid returned, in order, with their node
  kf_send_ok,      \* kafka: the transactions answered send_ok
  kf_poll_ok,      \* kafka: per node, the poll_ok replies written, in order
  kf_sends,        \* kafka: the number of sends clients have made
  kf_polls,        \* kafka: the number of polls clients have made
  hd,              \* handler: the NodeHandler under test
  hd_pc,           \* handler: where main's loop iteration is
  hd_op,           \* handler: the last call, the handler before it and the lines it dispatched
  hd_sent,         \* handler: the envelopes main sent through the handler, in order
  hd_order,        \* handler: the msg_ids sent, ordered by the last time each was dispatched
  tx_phase,        \* txn: per node, "start" or "running"
  node_transactions, \* txn: per node, main's node_transactions
  local_xid,       \* txn: per node, main's local_xid
  tx_pinged,       \* txn: per node, whether the polling thread has run
  tx_network,      \* txn: envelopes written by one node and not yet read by their destination
  tx_op,           \* txn: the last txn request handled: the store, the state rolled up, the reply
  tx_count,        \* txn: the number of txn requests clients have made
  my_node_id,      \* unique-ids: per process, main's my_node_id
  ID,              \* unique-ids: per process, the static ID
  uid_replies,     \* unique-ids: the generate_ok replies written, in order
  eof_binary,      \* end of input: the binary the process runs
  eof_open,        \* end of input: whether the harness may still write to stdin
  eof_stdin,       \* end of input: the lines written to stdin and not yet read
  eof_written,     \* end of input: the lines the harness has written
  eof_reader,      \* end of input: where the thread that reads stdin is
  eof_channel,     \* end of input: the envelopes in main's channel
  eof_main,        \* end of input: where main is
  pr_log,          \* poll reply: the transaction_log the reply is built from
  pr_offsets,      \* poll reply: the offsets of the poll
  pr_msgs,         \* poll reply: the poll_ok replies written, each one's msgs
  er_client,       \* seq-kv error: the code that waits for the reply of seq-kv
  er_code,         \* seq-kv error: the code of the error reply
  er_to_add,       \* seq-kv error: to_add of the counter when the reply arrives
  er_out,          \* seq-kv error: what the reply led to, once it was handled
  pt_binary,       \* poll_transactions: the binary that answers
  pt_store,        \* poll_transactions: its transaction_log or node_transactions
  pt_first_xid,    \* poll_transactions: first_xid of the request
  pt_reply,        \* poll_transactions: the replies written
  mg_binary,       \* transactions: the binary that receives
  mg_first,        \* transactions: the log before the first delivery
  mg_msgs,         \* transactions: the two messages, each a list of transactions
  mg_store,        \* transactions: the transaction_log or node_transactions now
  mg_done,         \* transactions: the messages delivered so far, in order
  pn_binary,       \* panic: the binary the process runs
  pn_threads,      \* panic: the state of every thread spawned so far
  pn_work,         \* panic: the iterations every thread has done
  pn_process,      \* panic: whether the process runs or how it exited
  ip_pc,           \* input pump: where the pump thread is, and the subscriber it sends to next
  ip_taken,        \* input pump: the lines taken from stdin
  ip_parsed,       \* input pump: the envelopes parsed
  ip_pending,      \* input pump: the senders in the new_subscriber channel
  ip_subscribers,  \* input pump: the Vec of subscribers
  ip_received,     \* input pump: the envelopes sent into every subscriber channel, in order
  ip_registered    \* input pump: ip_taken and ip_parsed when new_receiver was called

envVars == <<th_held, output_queue, wire, constructed>>
ioVars == <<network, stdout, max_written, lost>>
bcVars == <<all_node_ids, harness_topology, bc_phase, node_topology, messages,
            node_handlers, replies_seen, client_sent, client_reads>>
ctVars == <<ct_phase, ct_node, ct_acked, ct_read_ok, ct_adds, ct_probes>>
kfVars == <<kf_phase, transaction_log, poll_replies, main_pc, xid_ready, xa_pc,
            last_seen_xid, kf_assigned, kf_send_ok, kf_poll_ok, kf_sends, kf_polls>>
hdVars == <<hd, hd_pc, hd_op, hd_sent, hd_order>>
\* the variables of the single-component specifications
txVars == <<tx_phase, node_transactions, local_xid, tx_pinged, tx_network, tx_op, tx_count>>
uidVars == <<my_node_id, ID, uid_replies>>
eofVars == <<eof_binary, eof_open, eof_stdin, eof_written, eof_reader, eof_channel, eof_main>>
prVars == <<pr_log, pr_offsets, pr_msgs>>
erVars == <<er_client, er_code, er_to_add, er_out>>
ptVars == <<pt_binary, pt_store, pt_first_xid, pt_reply>>
mgVars == <<mg_binary, mg_first, mg_msgs, mg_store, mg_done>>
pnVars == <<pn_binary, pn_threads, pn_work, pn_process>>
ipVars == <<ip_pc, ip_taken, ip_parsed, ip_pending, ip_subscribers, ip_received, ip_registered>>
moreVars == <<hdVars, txVars, uidVars, eofVars, prVars, erVars, ptVars, mgVars, pnVars, ipVars>>
vars == <<MESSAGE_ID, envVars, ioVars, bcVars, kv_store, ctVars, kfVars, moreVars>>
\* the variables of the cluster specifications, but for MESSAGE_ID
clusterVars == <<envVars, ioVars, bcVars, kv_store, ctVars, kfVars>>
\* the variables a single-component specification leaves alone
notMgVars == <<MESSAGE_ID, clusterVars, hdVars, txVars, uidVars, eofVars, prVars, erVars, ptVars, pnVars, ipVars>>
notPnVars == <<MESSAGE_ID, clusterVars, hdVars, txVars, uidVars, eofVars, prVars, erVars, ptVars, mgVars, ipVars>>
notIpVars == <<MESSAGE_ID, clusterVars, hdVars, txVars, uidVars, eofVars, prVars, erVars, ptVars, mgVars, pnVars>>
notHdVars == <<clusterVars, txVars, uidVars, eofVars, prVars, erVars, ptVars, mgVars, pnVars, ipVars>>
notTxVars == <<clusterVars, hdVars, uidVars, eofVars, prVars, erVars, ptVars, mgVars, pnVars, ipVars>>
notUidVars == <<clusterVars, hdVars, txVars, eofVars, prVars, erVars, ptVars, mgVars, pnVars, ipVars>>
notEofVars == <<MESSAGE_ID, clusterVars, hdVars, txVars, uidVars, prVars, erVars, ptVars, mgVars, pnVars, ipVars>>
notErVars == <<MESSAGE_ID, clusterVars, hdVars, txVars, uidVars, eofVars, prVars, ptVars, mgVars, pnVars, ipVars>>
notPtVars == <<MESSAGE_ID, clusterVars, hdVars, txVars, uidVars, eofVars, prVars, erVars, mgVars, pnVars, ipVars>>
notPrVars == <<MESSAGE_ID, clusterVars, hdVars, txVars, uidVars, eofVars, erVars, ptVars, mgVars, pnVars, ipVars>>

(* ------------------------------------------------------------------ *)
(* message.rs                                                          *)
(* ------------------------------------------------------------------ *)
\* AtomicUsize::fetch_add(1, SeqCst): one indivisible step that returns the
\* old value and stores old + 1 (the wrap at 2^64 is out of reach)
fetch_add_mutant_no_store(counter) == [old |-> counter, new |-> counter]
fetch_add(counter) == [old |-> counter, new |-> counter + 1]

\* Envelope::new: the result is the envelope and the counter after fetch_add
EnvelopeNew(counter, src, dest, in_reply_to, message) ==
  LET f == fetch_add(counter) IN
  [ env |-> [src |-> src, dest |-> dest, msg_id |-> f.old,
             in_reply_to |-> in_reply_to, message |-> message],
    counter |-> f.new ]

\* Envelope::reply with src and dest copied instead of swapped
EnvelopeReply_mutant_no_swap(counter, request, message) ==
  LET f == fetch_add(counter) IN
  [ env |-> [src |-> request.src, dest |-> request.dest, msg_id |-> f.old,
             in_reply_to |-> request.msg_id, message |-> message],
    counter |-> f.new ]
\* Envelope::reply
EnvelopeReply(counter, request, message) ==
  LET f == fetch_add(counter) IN
  [ env |-> [src |-> request.dest, dest |-> request.src, msg_id |-> f.old,
             in_reply_to |-> request.msg_id, message |-> message],
    counter |-> f.new ]

(* ------------------------------------------------------------------ *)
(* Envelope specification: the threads of one kafka process (main loop *)
(* and xid assigner) construct envelopes and hand them to the          *)
(* OutputHandler, which writes them in queue order.                    *)
(* ------------------------------------------------------------------ *)
Threads == {"main", "xid_assigner"}
EnvProcess == "n1"
NoEnvelope == [src |-> "", dest |-> "", msg_id |-> None, in_reply_to |-> None,
               message |-> [type |-> "none"]]

\* requests the input pump can hand to a thread: msg_id is optional on the wire
ParsedRequests ==
  { [src |-> s, dest |-> EnvProcess, msg_id |-> m, in_reply_to |-> None,
     message |-> [type |-> "topology"]] :
       s \in {"c1", "n2"}, m \in {None, 7} }

CasPayload == [type |-> "cas"]
TopologyOkPayload == [type |-> "topology_ok"]

EnvInit ==
  /\ th_held = [t \in Threads |-> NoEnvelope]
  /\ output_queue = << >>
  /\ wire = << >>
  /\ constructed = << >>

\* let e = Envelope::new(local_node, dest, in_reply_to, message)
ThreadNew(t) ==
  /\ th_held[t] = NoEnvelope
  /\ Len(constructed) < MaxEnvelopes
  /\ \E dest \in {SEQ_KV, "n2"} :
       LET r == EnvelopeNew(MESSAGE_ID[EnvProcess], EnvProcess, dest, None, CasPayload) IN
       /\ MESSAGE_ID' = [MESSAGE_ID EXCEPT ![EnvProcess] = r.counter]
       /\ th_held' = [th_held EXCEPT ![t] = r.env]
       /\ constructed' = Append(constructed,
            [env |-> r.env, via |-> "new", request |-> NoEnvelope, thread |-> t])
  /\ UNCHANGED <<output_queue, wire, ioVars, bcVars, kv_store, ctVars, kfVars, moreVars>>

\* let e = envelope.reply(message)
ThreadReply(t) ==
  /\ th_held[t] = NoEnvelope
  /\ Len(constructed) < MaxEnvelopes
  /\ \E request \in ParsedRequests :
       LET r == EnvelopeReply(MESSAGE_ID[EnvProcess], request, TopologyOkPayload) IN
       /\ MESSAGE_ID' = [MESSAGE_ID EXCEPT ![EnvProcess] = r.counter]
       /\ th_held' = [th_held EXCEPT ![t] = r.env]
       /\ constructed' = Append(constructed,
            [env |-> r.env, via |-> "reply", request |-> request, thread |-> t])
  /\ UNCHANGED <<output_queue, wire, ioVars, bcVars, kv_store, ctVars, kfVars, moreVars>>

\* output_sender.send(e)
ThreadSubmit(t) ==
  /\ th_held[t] # NoEnvelope
  /\ output_queue' = Append(output_queue, th_held[t])
  /\ th_held' = [th_held EXCEPT ![t] = NoEnvelope]
  /\ UNCHANGED <<MESSAGE_ID, wire, constructed, ioVars, bcVars, kv_store, ctVars, kfVars, moreVars>>

\* OutputHandler: for envelope in receiver { write; flush }
OutputHandlerWrite ==
  /\ output_queue # << >>
  /\ wire' = Append(wire, Head(output_queue))
  /\ output_queue' = Tail(output_queue)
  /\ UNCHANGED <<MESSAGE_ID, th_held, constructed, ioVars, bcVars, kv_store, ctVars, kfVars, moreVars>>

\* the variables of the other workloads stay put
EnvIdle == th_held = Unused /\ output_queue = Unused /\ wire = Unused /\ constructed = Unused
IoIdle == network = Unused /\ stdout = Unused /\ max_written = Unused /\ lost = Unused
BcIdle ==
  /\ all_node_ids = Unused /\ harness_topology = Unused /\ bc_phase = Unused
  /\ node_topology = Unused /\ messages = Unused /\ node_handlers = Unused
  /\ replies_seen = Unused /\ client_sent = Unused /\ client_reads = Unused

KvIdle == kv_store = Unused
CtIdle ==
  /\ ct_phase = Unused /\ ct_node = Unused /\ ct_acked = Unused
  /\ ct_read_ok = Unused /\ ct_adds = Unused /\ ct_probes = Unused
KfIdle ==
  /\ kf_phase = Unused /\ transaction_log = Unused /\ poll_replies = Unused
  /\ main_pc = Unused /\ xid_ready = Unused /\ xa_pc = Unused
  /\ last_seen_xid = Unused /\ kf_assigned = Unused /\ kf_send_ok = Unused
  /\ kf_poll_ok = Unused /\ kf_sends = Unused /\ kf_polls = Unused

HdIdle ==
  /\ hd = Unused /\ hd_pc = Unused /\ hd_op = Unused /\ hd_sent = Unused
  /\ hd_order = Unused
TxIdle ==
  /\ tx_phase = Unused /\ node_transactions = Unused /\ local_xid = Unused
  /\ tx_pinged = Unused /\ tx_network = Unused /\ tx_op = Unused /\ tx_count = Unused
UidIdle == my_node_id = Unused /\ ID = Unused /\ uid_replies = Unused
EofIdle ==
  /\ eof_binary = Unused /\ eof_open = Unused /\ eof_stdin = Unused /\ eof_written = Unused
  /\ eof_reader = Unused /\ eof_channel = Unused /\ eof_main = Unused
PrIdle == pr_log = Unused /\ pr_offsets = Unused /\ pr_msgs = Unused
ErIdle == er_client = Unused /\ er_code = Unused /\ er_to_add = Unused /\ er_out = Unused
PtIdle ==
  pt_binary = Unused /\ pt_store = Unused /\ pt_first_xid = Unused /\ pt_reply = Unused
MgIdle ==
  mg_binary = Unused /\ mg_first = Unused /\ mg_msgs = Unused /\ mg_store = Unused /\ mg_done = Unused
PnIdle ==
  pn_binary = Unused /\ pn_threads = Unused /\ pn_work = Unused /\ pn_process = Unused
IpIdle ==
  ip_pc = Unused /\ ip_taken = Unused /\ ip_parsed = Unused /\ ip_pending = Unused /\ ip_subscribers = Unused /\ ip_received = Unused /\ ip_registered = Unused
MoreIdle == HdIdle /\ TxIdle /\ UidIdle /\ EofIdle /\ PrIdle /\ ErIdle /\ PtIdle /\ MgIdle /\ PnIdle /\ IpIdle
ClusterIdle == EnvIdle /\ IoIdle /\ BcIdle /\ KvIdle /\ CtIdle /\ KfIdle
NotMgIdle == ClusterIdle /\ HdIdle /\ TxIdle /\ UidIdle /\ EofIdle /\ PrIdle /\ ErIdle /\ PtIdle /\ PnIdle /\ IpIdle
NotPnIdle == ClusterIdle /\ HdIdle /\ TxIdle /\ UidIdle /\ EofIdle /\ PrIdle /\ ErIdle /\ PtIdle /\ MgIdle /\ IpIdle
NotIpIdle == ClusterIdle /\ HdIdle /\ TxIdle /\ UidIdle /\ EofIdle /\ PrIdle /\ ErIdle /\ PtIdle /\ MgIdle /\ PnIdle
NotHdIdle == ClusterIdle /\ TxIdle /\ UidIdle /\ EofIdle /\ PrIdle /\ ErIdle /\ PtIdle /\ MgIdle /\ PnIdle /\ IpIdle
NotTxIdle == ClusterIdle /\ HdIdle /\ UidIdle /\ EofIdle /\ PrIdle /\ ErIdle /\ PtIdle /\ MgIdle /\ PnIdle /\ IpIdle
NotUidIdle == ClusterIdle /\ HdIdle /\ TxIdle /\ EofIdle /\ PrIdle /\ ErIdle /\ PtIdle /\ MgIdle /\ PnIdle /\ IpIdle
NotEofIdle == ClusterIdle /\ HdIdle /\ TxIdle /\ UidIdle /\ PrIdle /\ ErIdle /\ PtIdle /\ MgIdle /\ PnIdle /\ IpIdle
NotErIdle == ClusterIdle /\ HdIdle /\ TxIdle /\ UidIdle /\ EofIdle /\ PrIdle /\ PtIdle /\ MgIdle /\ PnIdle /\ IpIdle
NotPtIdle == ClusterIdle /\ HdIdle /\ TxIdle /\ UidIdle /\ EofIdle /\ PrIdle /\ ErIdle /\ MgIdle /\ PnIdle /\ IpIdle
NotPrIdle == ClusterIdle /\ HdIdle /\ TxIdle /\ UidIdle /\ EofIdle /\ ErIdle /\ PtIdle /\ MgIdle /\ PnIdle /\ IpIdle

InitEnvelope ==
  /\ MESSAGE_ID = [n \in NodeNames |-> 0]
  /\ EnvInit
  /\ IoIdle /\ BcIdle /\ KvIdle /\ CtIdle /\ KfIdle /\ MoreIdle

NextEnvelope ==
  \/ \E t \in Threads : ThreadNew(t)
  \/ \E t \in Threads : ThreadReply(t)
  \/ \E t \in Threads : ThreadSubmit(t)
  \/ OutputHandlerWrite

SpecEnvelope == InitEnvelope /\ [][NextEnvelope]_vars

(* ------------------------------------------------------------------ *)
(* Claims about message.rs                                             *)
(* ------------------------------------------------------------------ *)

\* C8: every envelope built by Envelope::new or Envelope::reply takes its
\* msg_id from the one process-wide counter, which starts at 0 and grows by
\* exactly 1 per constructed envelope: the k-th construction (from 0) has
\* msg_id k, the counter equals the number of constructions, and no two
\* constructed envelopes share a msg_id, whichever threads construct them.
C8_MsgIdFromCounter ==
  /\ MESSAGE_ID[EnvProcess] = Len(constructed)
  /\ \A i \in 1..Len(constructed) : constructed[i].env.msg_id = i - 1
  /\ \A i, j \in 1..Len(constructed) :
       i # j => constructed[i].env.msg_id # constructed[j].env.msg_id

\* two threads have each constructed an envelope and neither has sent it yet
C8_Witness ==
  /\ Len(constructed) >= 2
  /\ \A t \in Threads : th_held[t] # NoEnvelope
  /\ \E i, j \in 1..Len(constructed) :
       /\ constructed[i].via = "new" /\ constructed[j].via = "reply"
       /\ constructed[i].thread # constructed[j].thread

\* C9: r.reply(payload) has src = r.dest, dest = r.src, in_reply_to =
\* r.msg_id (None when r has no msg_id), carries the payload, and has a
\* msg_id no earlier construction of the process has.
C9_ReplyInvertsRequest ==
  \A i \in 1..Len(constructed) :
    constructed[i].via = "reply" =>
      LET e == constructed[i].env
          r == constructed[i].request IN
      /\ e.src = r.dest
      /\ e.dest = r.src
      /\ e.in_reply_to = r.msg_id
      /\ e.msg_id # None
      /\ \A j \in 1..(i - 1) : constructed[j].env.msg_id # e.msg_id

\* a reply to a request without msg_id and a reply to one with msg_id, the
\* second built after another envelope
C9_Witness ==
  /\ \E i \in 1..Len(constructed) :
       /\ constructed[i].via = "reply"
       /\ constructed[i].request.msg_id = None
       /\ constructed[i].env.in_reply_to = None
  /\ \E i \in 2..Len(constructed) :
       /\ constructed[i].via = "reply"
       /\ constructed[i].request.msg_id = 7
       /\ constructed[i].request.src = "c1"
       /\ constructed[i].env.dest = "c1"

(* ------------------------------------------------------------------ *)
(* broadcast.rs: the per-peer delivery handler                         *)
(*                                                                     *)
(* Time.  Every decision of the handler compares Instants of one       *)
(* process, so an Instant is kept as the time elapsed since it, in     *)
(* milliseconds (0 is "now"; a larger number is an earlier Instant).   *)
(* One iteration of the main loop starts with recv_timeout(RESEND_AFTER*)
(* / 2) and ends with process_resends for every handler, so between two*)
(* calls of process_resends at most RESEND_AFTER / 2 passes and the    *)
(* newest in-flight record is never older than AgeCap when it is read; *)
(* older Instants are kept as AgeCap.                                  *)
(* ------------------------------------------------------------------ *)
RESEND_AFTER == 200
RecvTimeout == RESEND_AFTER \div 2
\* the time a main-loop iteration takes: recv_timeout returns at the end of
\* its window, with the message that arrived in it or with Timeout
Elapsed == {RecvTimeout}
AgeCap == RESEND_AFTER + RecvTimeout

Min(a, b) == IF a < b THEN a ELSE b
Max(a, b) == IF a > b THEN a ELSE b
Aged(since, d) == Min(since + d, AgeCap)

\* Vec::remove(i), 1-based
RemoveAt(s, i) == [j \in 1..(Len(s) - 1) |-> IF j < i THEN s[j] ELSE s[j + 1]]

\* MessageInFlight::from_message: sent_at = Instant::now()
from_message(message) == [message |-> message, sent_at |-> 0]

\* MessageInFlight::is_ready_for_resend: Instant::now() - sent_at > RESEND_AFTER
is_ready_for_resend(m) == m.sent_at > RESEND_AFTER

\* NodeHandler::new
NodeHandler_new(node) ==
  [node |-> node, messages_in_flight |-> << >>, last_message_received |-> 0]

\* send_message that puts the record at the front of the list
send_message_mutant_push_front(h, message) ==
  [ handler |-> [h EXCEPT !.messages_in_flight = << from_message(message) >> \o @],
    lines |-> << message >> ]

\* NodeHandler::send_message: dispatch the envelope, then push the record
\* (the panic on message.dest # node is never taken: main sends through the
\* handler of the envelope's dest)
send_message(h, message) ==
  [ handler |-> [h EXCEPT !.messages_in_flight = Append(@, from_message(message))],
    lines |-> << message >> ]

\* iter().position(|m| m.message.msg_id().unwrap() == in_reply_to), 0 for None
position(mif, in_reply_to) ==
  IF \E i \in 1..Len(mif) : mif[i].message.msg_id = in_reply_to
  THEN CHOOSE i \in 1..Len(mif) :
         /\ mif[i].message.msg_id = in_reply_to
         /\ \A j \in 1..(i - 1) : mif[j].message.msg_id # in_reply_to
  ELSE 0

\* handle_incoming_message that drops the oldest record when no record matches
handle_incoming_message_mutant_pop(h, message) ==
  LET h1 == [h EXCEPT !.last_message_received = 0]
      mif == position(h.messages_in_flight, message.in_reply_to)
  IN IF mif # 0 THEN [h1 EXCEPT !.messages_in_flight = RemoveAt(@, mif)]
     ELSE IF h.messages_in_flight # << >>
          THEN [h1 EXCEPT !.messages_in_flight = Tail(@)]
          ELSE h1
\* handle_incoming_message that keeps the acknowledged record
handle_incoming_message_mutant_keep(h, message) ==
  [h EXCEPT !.last_message_received = 0]
\* NodeHandler::handle_incoming_message
handle_incoming_message(h, message) ==
  LET h1 == [h EXCEPT !.last_message_received = 0] IN
  IF message.in_reply_to # None
  THEN LET mif == position(h.messages_in_flight, message.in_reply_to) IN
       IF mif # 0
       THEN [h1 EXCEPT !.messages_in_flight = RemoveAt(@, mif)]
       ELSE h1
  ELSE h1

\* iter().max_by_key(|m| m.sent_at): the record with the latest sent_at, the
\* last of them when several are equal
max_by_key_sent_at(mif) ==
  LET i == CHOOSE i \in 1..Len(mif) :
             /\ \A j \in 1..Len(mif) : mif[j].sent_at >= mif[i].sent_at
             /\ \A j \in (i + 1)..Len(mif) : mif[j].sent_at > mif[i].sent_at
  IN mif[i]

\* process_resends that never resends
process_resends_mutant_never(h) == [handler |-> h, lines |-> << >>]
\* process_resends that resends the oldest record as an envelope without its msg_id
process_resends_mutant_restamp(h) ==
  LET mif == h.messages_in_flight IN
  IF mif = << >> THEN [handler |-> h, lines |-> << >>]
  ELSE
    LET newest == max_by_key_sent_at(mif)
        again == [mif[1].message EXCEPT !.msg_id = 0]
    IN IF is_ready_for_resend(newest)
       THEN [ handler |-> [h EXCEPT !.messages_in_flight =
                             Append(Tail(mif), from_message(again))],
              lines |-> << again >> ]
       ELSE [handler |-> h, lines |-> << >>]
\* process_resends whose probe resends the last record of the list
process_resends_mutant_probe_last(h) ==
  LET mif == h.messages_in_flight IN
  IF mif = << >> THEN [handler |-> h, lines |-> << >>]
  ELSE
    LET newest == max_by_key_sent_at(mif) IN
    IF is_ready_for_resend(newest)
    THEN IF h.last_message_received < newest.sent_at
         THEN [ handler |-> [h EXCEPT !.messages_in_flight =
                               [i \in 1..Len(mif) |-> from_message(mif[i].message)]],
                lines |-> [i \in 1..Len(mif) |-> mif[i].message] ]
         ELSE [ handler |-> [h EXCEPT !.messages_in_flight =
                               Append(SubSeq(mif, 1, Len(mif) - 1),
                                      from_message(mif[Len(mif)].message))],
                lines |-> << mif[Len(mif)].message >> ]
    ELSE [handler |-> h, lines |-> << >>]
\* NodeHandler::process_resends
process_resends(h) ==
  LET mif == h.messages_in_flight IN
  IF mif = << >> THEN [handler |-> h, lines |-> << >>]
  ELSE
    LET newest == max_by_key_sent_at(mif) IN
    IF is_ready_for_resend(newest)
    THEN IF h.last_message_received < newest.sent_at
         THEN \* last_message_received > newest.sent_at: resend all, in order
              [ handler |-> [h EXCEPT !.messages_in_flight =
                               [i \in 1..Len(mif) |-> from_message(mif[i].message)]],
                lines |-> [i \in 1..Len(mif) |-> mif[i].message] ]
         ELSE \* resend the oldest outstanding message
              [ handler |-> [h EXCEPT !.messages_in_flight =
                               Append(Tail(mif), from_message(mif[1].message))],
                lines |-> << mif[1].message >> ]
    ELSE [handler |-> h, lines |-> << >>]

(* ------------------------------------------------------------------ *)
(* broadcast.rs: main                                                  *)
(* ------------------------------------------------------------------ *)
\* envelopes a node may construct before the model stops feeding it
MaxMessageId == 6
\* envelopes the network may drop
MaxLoss == 1
\* the values clients broadcast
MaxValue == 2
\* the reads clients make
MaxReads == 1

Values == 1..MaxValue
Client == "c1"

\* the orders in which a HashMap may iterate over the keys S
Orders(S) ==
  { o \in [1..Cardinality(S) -> S] : \A i, j \in DOMAIN o : i # j => o[i] # o[j] }

Contains(seq, x) == \E i \in DOMAIN seq : seq[i] = x

AgedHandlers(hs, d) ==
  [ p \in DOMAIN hs |->
      [ node |-> hs[p].node,
        messages_in_flight |->
          [ i \in DOMAIN hs[p].messages_in_flight |->
              [ message |-> hs[p].messages_in_flight[i].message,
                sent_at |-> Aged(hs[p].messages_in_flight[i].sent_at, d) ] ],
        last_message_received |-> Aged(hs[p].last_message_received, d) ] ]

\* the lines of for h in node_handlers.values_mut() { h.process_resends() },
\* with the handlers taken in the given order; resent[p] is process_resends
\* of the handler for p (the handlers do not touch each other)
RECURSIVE ResentLines(_, _)
ResentLines(resent, order) ==
  IF order = << >> THEN << >>
  ELSE resent[Head(order)].lines \o ResentLines(resent, Tail(order))

MaxIdOf(m, lines) ==
  IF lines = << >> THEN m
  ELSE LET top == CHOOSE x \in { lines[i].msg_id : i \in DOMAIN lines } :
                    \A i \in DOMAIN lines : lines[i].msg_id <= x
       IN Max(m, top)

\* a cluster of three nodes in a line: n2 is the neighbour of n1 and of n3
LineTopology ==
  [n \in {"n1", "n2", "n3"} |->
     CASE n = "n1" -> << "n2" >> [] n = "n2" -> << "n1", "n3" >> [] OTHER -> << "n2" >>]
\* envelopes a node of the line may construct before the model stops feeding it
MaxLineMessageId == 7

\* the model feeds a node a request only while the k envelopes its arm
\* constructs keep the node's counter within MaxMessageId (MaxLineMessageId
\* in the line)
IdBudgetLeft(n, k) ==
  MESSAGE_ID[n] + k <= (IF harness_topology = LineTopology THEN MaxLineMessageId
                        ELSE MaxMessageId)
\* the Broadcast arm constructs at most one envelope per neighbour and a reply
BroadcastIds(n) == Len(node_topology[n][n]) + 1

\* the end of one iteration of main's loop: the handlers hs, the counter and
\* the lines written by the match arm; then process_resends for every handler
EndIteration(n, hs, counter, lines, consumed) ==
  \E before \in {hs} :
    \E resent \in {[p \in DOMAIN before |-> process_resends(before[p])]} :
      \E again \in { ResentLines(resent, order) : order \in Orders(DOMAIN before) } :
        \E all \in {lines \o again} :
          /\ node_handlers' =
               [node_handlers EXCEPT ![n] = [p \in DOMAIN before |-> resent[p].handler]]
          /\ MESSAGE_ID' = [MESSAGE_ID EXCEPT ![n] = counter]
          /\ stdout' = [node |-> n, lines |-> all]
          /\ max_written' = [max_written EXCEPT ![n] = MaxIdOf(@, all)]
          /\ network' = (network \ consumed)
                \cup { all[i] : i \in { j \in DOMAIN all : all[j].dest \in NodeNames } }

\* Message::Init
BcInit(n) ==
  /\ bc_phase[n] = "start"
  /\ LET env == [src |-> Client, dest |-> n, msg_id |-> 1, in_reply_to |-> None,
                 message |-> [type |-> "init"]]
         hs == [p \in all_node_ids |-> NodeHandler_new(p)]
         r == EnvelopeReply(MESSAGE_ID[n], env, [type |-> "init_ok"])
     IN EndIteration(n, hs, r.counter, << r.env >>, {})
  /\ bc_phase' = [bc_phase EXCEPT ![n] = "inited"]
  /\ UNCHANGED <<all_node_ids, harness_topology, node_topology, messages,
                 replies_seen, client_sent, client_reads, lost, envVars, kv_store, ctVars, kfVars, moreVars>>

\* Message::Topology
BcTopology(n) ==
  /\ bc_phase[n] = "inited"
  /\ \E d \in Elapsed :
       LET env == [src |-> Client, dest |-> n, msg_id |-> 2, in_reply_to |-> None,
                   message |-> [type |-> "topology"]]
           r == EnvelopeReply(MESSAGE_ID[n], env, [type |-> "topology_ok"])
       IN EndIteration(n, AgedHandlers(node_handlers[n], d), r.counter, << r.env >>, {})
  /\ node_topology' = [node_topology EXCEPT ![n] = harness_topology]
  /\ bc_phase' = [bc_phase EXCEPT ![n] = "ready"]
  /\ UNCHANGED <<all_node_ids, harness_topology, messages, replies_seen,
                 client_sent, client_reads, lost, envVars, kv_store, ctVars, kfVars, moreVars>>

\* the Broadcast arm's loop without its test of seen_at_nodes: an envelope
\* for every neighbour
RECURSIVE Forward_mutant_every_neighbour(_, _, _, _, _, _)
Forward_mutant_every_neighbour(n, hs, counter, neighbours, message, seen_at_nodes) ==
  IF neighbours = << >> THEN [handlers |-> hs, counter |-> counter, lines |-> << >>]
  ELSE
    LET neighbour == Head(neighbours)
        e == EnvelopeNew(counter, n, neighbour, None,
               [type |-> "broadcast", message |-> message,
                seen_at_nodes |-> seen_at_nodes])
        sent == send_message(hs[neighbour], e.env)
        rest == Forward_mutant_every_neighbour(n, [hs EXCEPT ![neighbour] = sent.handler],
                    e.counter, Tail(neighbours), message, seen_at_nodes)
    IN [handlers |-> rest.handlers, counter |-> rest.counter,
        lines |-> sent.lines \o rest.lines]
\* the envelopes the Broadcast arm sends: one per neighbour that is not in
\* seen_at_nodes, in the order of the topology's list
RECURSIVE Forward(_, _, _, _, _, _)
Forward(n, hs, counter, neighbours, message, seen_at_nodes) ==
  IF neighbours = << >> THEN [handlers |-> hs, counter |-> counter, lines |-> << >>]
  ELSE
    LET neighbour == Head(neighbours) IN
    IF Contains(seen_at_nodes, neighbour)
    THEN Forward(n, hs, counter, Tail(neighbours), message, seen_at_nodes)
    ELSE
      LET e == EnvelopeNew(counter, n, neighbour, None,
                 [type |-> "broadcast", message |-> message,
                  seen_at_nodes |-> seen_at_nodes])
          sent == send_message(hs[neighbour], e.env)
          rest == Forward(n, [hs EXCEPT ![neighbour] = sent.handler], e.counter,
                          Tail(neighbours), message, seen_at_nodes)
      IN [handlers |-> rest.handlers, counter |-> rest.counter,
          lines |-> sent.lines \o rest.lines]

\* Message::Broadcast, after handle_incoming_message: hs are the handlers
BroadcastArm(n, hs, env, consumed) ==
  LET message == env.message.message
      given == env.message.seen_at_nodes
      seen_at_nodes == IF Contains(given, n) THEN given ELSE Append(given, n)
  IN \E f \in {Forward(n, hs, MESSAGE_ID[n], node_topology[n][n], message, seen_at_nodes)} :
       \E r \in {EnvelopeReply(f.counter, env, [type |-> "broadcast_ok"])} :
         /\ messages' = [messages EXCEPT ![n] = @ \cup {message}]
         /\ EndIteration(n, f.handlers, r.counter, f.lines \o << r.env >>, consumed)

\* a client's broadcast{message}: seen_at_nodes is absent (unwrap_or_default)
BcClientBroadcast(n, v) ==
  /\ \A m \in all_node_ids : bc_phase[m] = "ready"
  /\ v = Cardinality(client_sent) + 1
  /\ IdBudgetLeft(n, BroadcastIds(n))
  /\ \E d \in Elapsed : \E aged \in {AgedHandlers(node_handlers[n], d)} :
       BroadcastArm(n, aged,
         [src |-> Client, dest |-> n, msg_id |-> 10 + v, in_reply_to |-> None,
          message |-> [type |-> "broadcast", message |-> v, seen_at_nodes |-> << >>]],
         {})
  /\ client_sent' = client_sent \cup {v}
  /\ UNCHANGED <<all_node_ids, harness_topology, bc_phase, node_topology,
                 replies_seen, client_reads, lost, envVars, kv_store, ctVars, kfVars, moreVars>>

\* a client's read
BcClientRead(n) ==
  /\ bc_phase[n] = "ready"
  /\ client_reads < MaxReads
  /\ IdBudgetLeft(n, 1)
  /\ client_reads' = client_reads + 1
  /\ \E d \in Elapsed :
       LET env == [src |-> Client, dest |-> n, msg_id |-> 3, in_reply_to |-> None,
                   message |-> [type |-> "read"]]
           r == EnvelopeReply(MESSAGE_ID[n], env,
                  [type |-> "read_ok", messages |-> messages[n]])
       IN EndIteration(n, AgedHandlers(node_handlers[n], d), r.counter, << r.env >>, {})
  /\ UNCHANGED <<all_node_ids, harness_topology, bc_phase, node_topology, messages,
                 replies_seen, client_sent, lost, envVars, kv_store, ctVars, kfVars, moreVars>>

\* an envelope from a peer: handle_incoming_message, then the match arm
BcReceive(n, env) ==
  /\ env \in network /\ env.dest = n
  /\ bc_phase[n] = "ready"
  /\ env.message.type = "broadcast" => IdBudgetLeft(n, BroadcastIds(n))
  /\ UNCHANGED <<all_node_ids, harness_topology, bc_phase, node_topology,
                 client_sent, client_reads, lost, envVars, kv_store, ctVars, kfVars, moreVars>>
  /\ replies_seen' =
       IF env.in_reply_to = None THEN replies_seen
       ELSE [replies_seen EXCEPT ![n][env.src] = @ \cup {env.in_reply_to}]
  /\ \E d \in Elapsed :
     \E aged \in {AgedHandlers(node_handlers[n], d)} :
     \E hs \in {[aged EXCEPT ![env.src] = handle_incoming_message(@, env)]} :
          CASE env.message.type = "broadcast" -> BroadcastArm(n, hs, env, {env})
            [] env.message.type = "broadcast_ok" ->
                 /\ EndIteration(n, hs, MESSAGE_ID[n], << >>, {env})
                 /\ UNCHANGED messages

\* Err(RecvTimeoutError::Timeout): nothing arrived within RESEND_AFTER / 2
\* (with nothing in flight the iteration writes nothing and no later decision
\* reads the Instants it ages, so the model takes it only with a record in flight)
BcTimeout(n) ==
  /\ bc_phase[n] # "start"
  /\ \E p \in DOMAIN node_handlers[n] : node_handlers[n][p].messages_in_flight # << >>
  /\ UNCHANGED <<all_node_ids, harness_topology, bc_phase, node_topology, messages,
                 replies_seen, client_sent, client_reads, lost, envVars, kv_store, ctVars, kfVars, moreVars>>
  /\ EndIteration(n, AgedHandlers(node_handlers[n], RecvTimeout), MESSAGE_ID[n], << >>, {})

\* the network drops an envelope
BcLose(env) ==
  /\ env \in network
  /\ lost < MaxLoss
  /\ network' = network \ {env}
  /\ lost' = lost + 1
  /\ stdout' = [node |-> "", lines |-> << >>]
  /\ UNCHANGED <<MESSAGE_ID, max_written, bcVars, envVars, kv_store, ctVars, kfVars, moreVars>>

\* the cluster and topology of the harness: two nodes, each the other's neighbour
PairTopology == [n \in {"n1", "n2"} |-> IF n = "n1" THEN << "n2" >> ELSE << "n1" >>]

BcInitWith(topology) ==
  /\ MESSAGE_ID = [n \in NodeNames |-> 0]
  /\ all_node_ids = DOMAIN topology
  /\ harness_topology = topology
  /\ bc_phase = [n \in DOMAIN topology |-> "start"]
  /\ node_topology = [n \in DOMAIN topology |-> << >>]
  /\ messages = [n \in DOMAIN topology |-> {}]
  /\ node_handlers = [n \in DOMAIN topology |-> << >>]
  /\ replies_seen = [n \in DOMAIN topology |-> [p \in DOMAIN topology |-> {}]]
  /\ client_sent = {}
  /\ client_reads = 0
  /\ network = {}
  /\ stdout = [node |-> "", lines |-> << >>]
  /\ max_written = [n \in DOMAIN topology |-> None]
  /\ lost = 0
  /\ EnvIdle /\ KvIdle /\ CtIdle /\ KfIdle /\ MoreIdle

InitBroadcast == BcInitWith(PairTopology)

NextBroadcast ==
  \/ \E n \in all_node_ids : BcInit(n)
  \/ \E n \in all_node_ids : BcTopology(n)
  \/ \E n \in all_node_ids, v \in Values : BcClientBroadcast(n, v)
  \/ \E n \in all_node_ids : BcClientRead(n)
  \/ \E n \in all_node_ids, env \in network : BcReceive(n, env)
  \/ \E n \in all_node_ids : BcTimeout(n)
  \/ \E env \in network : BcLose(env)

SpecBroadcast == InitBroadcast /\ [][NextBroadcast]_vars

InitBroadcastLine == BcInitWith(LineTopology)

\* the values a client broadcasts in the line, all to the node at its end
MaxLineValue == 1
LineEnd == "n1"

\* the network of the line delays envelopes and drops none
NextBroadcastLine ==
  \/ \E n \in all_node_ids : BcInit(n)
  \/ \E n \in all_node_ids : BcTopology(n)
  \/ \E v \in 1..MaxLineValue : BcClientBroadcast(LineEnd, v)
  \/ \E n \in all_node_ids, env \in network : BcReceive(n, env)
  \/ \E n \in all_node_ids : BcTimeout(n)

SpecBroadcastLine == InitBroadcastLine /\ [][NextBroadcastLine]_vars

\* the main loop runs for ever (recv_timeout always returns), and the network
\* delivers what it does not drop
FairBroadcast ==
  /\ \A n \in {"n1", "n2"} : WF_vars(BcTimeout(n))
  /\ \A n \in {"n1", "n2"} : WF_vars(\E env \in network : BcReceive(n, env))

FairSpecBroadcast == SpecBroadcast /\ FairBroadcast

(* ------------------------------------------------------------------ *)
(* Claims about broadcast.rs                                           *)
(* ------------------------------------------------------------------ *)
InFlight(n, p) == node_handlers[n][p].messages_in_flight
\* the in-flight envelopes of node n, of every handler
EnvelopesInFlight(n) ==
  UNION { { InFlight(n, p)[i].message : i \in DOMAIN InFlight(n, p) } :
          p \in DOMAIN node_handlers[n] }

\* a node that lacks v can no longer be fed a broadcast within MaxMessageId
BcBoundReached(v) ==
  \E n \in all_node_ids :
    /\ bc_phase[n] = "ready"
    /\ v \notin messages[n]
    /\ ~IdBudgetLeft(n, BroadcastIds(n))

\* v is in the messages set (the answer to read) of every node
Delivered(v) == \A n \in all_node_ids : v \in messages[n]

\* C6: with a connected topology received before the broadcasts and a network
\* that drops at most MaxLoss envelopes, from some time on every value a
\* client has broadcast is in the messages set (the answer to read) of every
\* node, unless a node that lacks it has used up its MaxMessageId envelopes.
C6_BroadcastReachesAll ==
  <>[](\A v \in client_sent : Delivered(v) \/ BcBoundReached(v))

\* a value is in every node's set although the network dropped an envelope,
\* and a read has returned the full set
C6_Witness ==
  /\ lost > 0
  /\ client_sent = Values
  /\ \A n \in all_node_ids : messages[n] = Values
  /\ \E i \in DOMAIN stdout.lines :
       /\ stdout.lines[i].message.type = "read_ok"
       /\ stdout.lines[i].message.messages = Values

\* the lines of a step are above every msg_id written before, and increasing
WrittenIncreasing(m, lines) ==
  \A i \in DOMAIN lines :
    /\ lines[i].msg_id > m
    /\ \A j \in 1..(i - 1) : lines[j].msg_id < lines[i].msg_id

\* C7 as stated: the msg_ids of the envelopes a process writes are distinct and
\* strictly increasing in emission order, resends included.
C7_AllOutputIncreasing ==
  [][ stdout'.node \in all_node_ids =>
        WrittenIncreasing(max_written[stdout'.node], stdout'.lines) ]_vars

\* C7 amended: an envelope a process writes is either new, and then its msg_id
\* is above every msg_id the process wrote before (so new envelopes have
\* distinct, strictly increasing msg_ids in emission order), or it is a resend
\* of an envelope that was in flight, written again under its original msg_id.
C7_NewIncreasingResendSameId ==
  [][ stdout'.node \in all_node_ids =>
        LET n == stdout'.node
            lines == stdout'.lines
            IsNew(i) == lines[i].msg_id >= MESSAGE_ID[n]
        IN /\ \A i \in DOMAIN lines :
                \/ /\ IsNew(i)
                   /\ lines[i].msg_id > max_written[n]
                   /\ lines[i].msg_id < MESSAGE_ID'[n]
                   /\ \A j \in 1..(i - 1) : IsNew(j) => lines[j].msg_id < lines[i].msg_id
                \/ /\ ~IsNew(i)
                   /\ lines[i] \in EnvelopesInFlight(n)
                   /\ lines[i].msg_id <= max_written[n]
           /\ MESSAGE_ID'[n] - MESSAGE_ID[n]
                = Cardinality({ i \in DOMAIN lines : IsNew(i) }) ]_vars

\* line i of the last step is a resend: the step constructed at most
\* Len(lines) envelopes, and this msg_id is older than all of them
Resent(i) == stdout.lines[i].msg_id < MESSAGE_ID[stdout.node] - Len(stdout.lines)

\* a step that wrote a new envelope and wrote an older one again
C7_Witness ==
  /\ stdout.node \in all_node_ids
  /\ \E i \in DOMAIN stdout.lines : Resent(i)
  /\ \E j \in DOMAIN stdout.lines :
       stdout.lines[j].msg_id = MESSAGE_ID[stdout.node] - 1

\* C10: no in-flight list of a handler for peer p holds an envelope whose
\* msg_id is the in_reply_to of a message already received from p.
C10_NoAckedInFlight ==
  \A n \in all_node_ids : \A p \in DOMAIN node_handlers[n] :
    \A i \in DOMAIN InFlight(n, p) :
      InFlight(n, p)[i].message.msg_id \notin replies_seen[n][p]

\* an acknowledgment was applied, the same handler still has a record in
\* flight, and that handler has resent
C10_Witness ==
  \E n \in all_node_ids : \E p \in DOMAIN node_handlers[n] :
    /\ replies_seen[n][p] # {}
    /\ InFlight(n, p) # << >>
    /\ stdout.node = n
    /\ \E i \in DOMAIN stdout.lines : Resent(i) /\ stdout.lines[i].dest = p
    /\ \E i \in DOMAIN InFlight(n, p) :
         \E k \in replies_seen[n][p] : InFlight(n, p)[i].message.msg_id > k

\* C20 (as stated): in every iteration of a node's main loop, a broadcast
\* envelope the node constructs for a neighbour (a broadcast line it writes
\* that was not in flight before, so not a resend of its own) carries a value
\* that was not in the node's set before the iteration.
C20_ForwardOnlyIfNew ==
  [][ \A i \in DOMAIN stdout'.lines :
        ( /\ stdout'.lines[i].message.type = "broadcast"
          /\ stdout'.lines[i] \notin EnvelopesInFlight(stdout'.node) )
        => stdout'.lines[i].message.message \notin messages[stdout'.node] ]_vars

\* the broadcast envelopes the iteration that ends in the next state takes
\* from the network: the envelope its recv_timeout returned, if a peer's
Taken == { env \in network \ network' :
             env.dest = stdout'.node /\ env.message.type = "broadcast" }

\* C35: every broadcast envelope a node constructs for a neighbour (a
\* broadcast line it writes that was not in flight before, so not a resend)
\* carries a seen_at_nodes list that names the sending node and every node of
\* the list of the broadcast the iteration received, and does not name the
\* neighbour the envelope goes to; the list names no node twice and is no
\* longer than the cluster, so a forwarding chain, whose hops the list counts,
\* visits a node at most once and has at most as many hops as there are nodes.
C35_SeenAtNodesGrows ==
  [][ \A i \in DOMAIN stdout'.lines :
        LET e == stdout'.lines[i] IN
        ( /\ e.message.type = "broadcast"
          /\ e \notin EnvelopesInFlight(stdout'.node) )
        => LET seen == e.message.seen_at_nodes IN
           /\ e.src = stdout'.node
           /\ Contains(seen, e.src)
           /\ ~ Contains(seen, e.dest)
           /\ \A env \in Taken :
                \A k \in DOMAIN env.message.seen_at_nodes :
                  Contains(seen, env.message.seen_at_nodes[k])
           /\ \A a, b \in DOMAIN seen : a # b => seen[a] # seen[b]
           /\ Len(seen) <= Cardinality(all_node_ids) ]_vars

\* the node in the middle of the line has received the broadcast of the node
\* at its end and has written its own for the node at the other end
C35_Witness ==
  /\ harness_topology = LineTopology
  /\ stdout.node = "n2"
  /\ \E i \in DOMAIN stdout.lines :
       /\ stdout.lines[i].message.type = "broadcast"
       /\ stdout.lines[i].dest = "n3"
       /\ stdout.lines[i].message.seen_at_nodes = << "n1", "n2" >>
       /\ stdout.lines[i] \in EnvelopesInFlight("n2")
  /\ \E p \in network : p.dest = "n3" /\ p.message.type = "broadcast"

(* ------------------------------------------------------------------ *)
(* Handler specification: one NodeHandler of broadcast.rs, call by     *)
(* call.  main owns the handler for peer HdPeer; an iteration of its   *)
(* loop is recv_timeout, then handle_incoming_message when the         *)
(* envelope came from the peer, then the match arm, which sends at     *)
(* most one envelope through the handler, then process_resends.  An    *)
(* envelope from the peer names the peer in seen_at_nodes, so its arm  *)
(* sends nothing back through this handler.                            *)
(* ------------------------------------------------------------------ *)
\* envelopes main sends through the handler
MaxHdSends == 3

HdOwner == "n1"
HdPeer == "n2"

HdCall(op, before, message, lines) ==
  [op |-> op, before |-> before, message |-> message, lines |-> lines,
   order |-> hd_order]

\* the msg_ids of order after the envelopes of lines were dispatched, one by one
RECURSIVE Dispatched(_, _)
Dispatched(order, lines) ==
  IF lines = << >> THEN order
  ELSE Dispatched(Append(SelectSeq(order, LAMBDA id : id # Head(lines).msg_id),
                         Head(lines).msg_id),
                  Tail(lines))

\* incoming_receiver.recv_timeout(RESEND_AFTER / 2) returns
HdRecv ==
  /\ hd_pc = "recv"
  /\ \E d \in Elapsed :
       hd' = AgedHandlers([p \in {HdPeer} |-> hd], d)[HdPeer]
  /\ hd_pc' = "got"
  /\ hd_op' = HdCall("recv", hd, NoEnvelope, << >>)
  /\ UNCHANGED <<MESSAGE_ID, hd_sent, hd_order, notHdVars>>

\* node_handlers.get_mut(&env.src).unwrap().handle_incoming_message(&env)
HdIncoming(in_reply_to) ==
  /\ hd_pc = "got"
  /\ LET env == [src |-> HdPeer, dest |-> HdOwner, msg_id |-> None,
                 in_reply_to |-> in_reply_to,
                 message |-> [type |-> IF in_reply_to = None THEN "broadcast"
                                       ELSE "broadcast_ok"]]
     IN /\ hd' = handle_incoming_message(hd, env)
        /\ hd_op' = HdCall("incoming", hd, env, << >>)
  /\ hd_pc' = "tick"
  /\ UNCHANGED <<MESSAGE_ID, hd_sent, hd_order, notHdVars>>

\* the Broadcast arm for an envelope of a client or another peer:
\* Envelope::new, then node_handlers.get_mut(neighbour).unwrap().send_message(e)
HdSend(v) ==
  /\ hd_pc = "got"
  /\ Len(hd_sent) < MaxHdSends
  /\ LET e == EnvelopeNew(MESSAGE_ID[HdOwner], HdOwner, HdPeer, None,
                [type |-> "broadcast", message |-> v, seen_at_nodes |-> << HdOwner >>])
         sent == send_message(hd, e.env)
     IN /\ hd' = sent.handler
        /\ hd_op' = HdCall("send", hd, e.env, sent.lines)
        /\ hd_sent' = Append(hd_sent, e.env)
        /\ hd_order' = Dispatched(hd_order, sent.lines)
        /\ MESSAGE_ID' = [MESSAGE_ID EXCEPT ![HdOwner] = e.counter]
  /\ hd_pc' = "tick"
  /\ UNCHANGED notHdVars

\* h.process_resends() at the end of the iteration
HdTick ==
  /\ hd_pc \in {"got", "tick"}
  /\ LET r == process_resends(hd)
     IN /\ hd' = r.handler
        /\ hd_op' = HdCall("tick", hd, NoEnvelope, r.lines)
        /\ hd_order' = Dispatched(hd_order, r.lines)
  /\ hd_pc' = "recv"
  /\ UNCHANGED <<MESSAGE_ID, hd_sent, notHdVars>>

InitHandler ==
  /\ MESSAGE_ID = [n \in {HdOwner} |-> 0]
  /\ hd = NodeHandler_new(HdPeer)
  /\ hd_pc = "recv"
  /\ hd_order = << >>
  /\ hd_op = HdCall("new", NodeHandler_new(HdPeer), NoEnvelope, << >>)
  /\ hd_sent = << >>
  /\ NotHdIdle

NextHandler ==
  \/ HdRecv
  \/ \E r \in {None} \cup (0..MaxHdSends) : HdIncoming(r)
  \/ \E v \in Values : HdSend(v)
  \/ HdTick

SpecHandler == InitHandler /\ [][NextHandler]_vars

(* ------------------------------------------------------------------ *)
(* Claims about the handler                                            *)
(* ------------------------------------------------------------------ *)
\* the msg_ids of the records of an in-flight list
IdsInFlight(mif) == { mif[i].message.msg_id : i \in DOMAIN mif }

\* C11: when handle_incoming_message gets an envelope whose in_reply_to
\* matches no in-flight record, the in-flight list is what it was and nothing
\* is dispatched; only last_message_received is set to now.
C11_DuplicateAckIsNoOp ==
  ( /\ hd_op.op = "incoming"
    /\ hd_op.message.in_reply_to # None
    /\ hd_op.message.in_reply_to \notin IdsInFlight(hd_op.before.messages_in_flight) )
  => /\ hd.messages_in_flight = hd_op.before.messages_in_flight
     /\ hd.node = hd_op.before.node
     /\ hd.last_message_received = 0
     /\ hd_op.lines = << >>

\* an acknowledgment arrives a second time, for an envelope that was sent and
\* whose record is gone, while other records are in flight
C11_Witness ==
  /\ hd_op.op = "incoming"
  /\ hd_op.message.in_reply_to \in { hd_sent[i].msg_id : i \in DOMAIN hd_sent }
  /\ hd_op.message.in_reply_to \notin IdsInFlight(hd_op.before.messages_in_flight)
  /\ hd_op.before.messages_in_flight # << >>
  /\ hd_op.before.last_message_received > 0

\* the place of x in the sequence seq (0: not in it)
IndexOf(seq, x) ==
  IF \E i \in DOMAIN seq : seq[i] = x
  THEN CHOOSE i \in DOMAIN seq : seq[i] = x /\ \A j \in 1..(i - 1) : seq[j] # x
  ELSE 0

\* the newest in-flight record is older than RESEND_AFTER: every record is
NewestIsOld(mif) == mif # << >> /\ \A i \in DOMAIN mif : mif[i].sent_at > RESEND_AFTER
\* a message of the peer was received after the newest send
HeardSinceNewest(h) ==
  \A i \in DOMAIN h.messages_in_flight :
    h.last_message_received < h.messages_in_flight[i].sent_at

EnvelopesOf(mif) == { mif[i].message : i \in DOMAIN mif }

\* C18 (as stated): when process_resends takes the flush branch, the lines it
\* dispatches are the in-flight envelopes in the order in which main sent them
\* first, every sent_at is now, and the list holds the same envelopes.
C18_FlushInOriginalOrder ==
  ( /\ hd_op.op = "tick"
    /\ NewestIsOld(hd_op.before.messages_in_flight)
    /\ HeardSinceNewest(hd_op.before) )
  => LET mif == hd_op.before.messages_in_flight
         lines == hd_op.lines
     IN /\ Len(lines) = Len(mif)
        /\ { lines[i] : i \in DOMAIN lines } = EnvelopesOf(mif)
        /\ \A i, j \in DOMAIN lines :
             i < j => IndexOf(hd_sent, lines[i]) < IndexOf(hd_sent, lines[j])
        /\ Len(hd.messages_in_flight) = Len(mif)
        /\ EnvelopesOf(hd.messages_in_flight) = EnvelopesOf(mif)
        /\ \A i \in DOMAIN hd.messages_in_flight : hd.messages_in_flight[i].sent_at = 0

\* C19: when process_resends takes the probe branch, it dispatches one
\* envelope, the in-flight one dispatched longest ago, re-stamps its record and
\* leaves every other record as it was; when the newest record is not older
\* than RESEND_AFTER (or nothing is in flight), it dispatches nothing and
\* leaves the handler as it was.
C19_ProbeResendsOldestOnly ==
  hd_op.op = "tick" =>
    LET b == hd_op.before
        mif == b.messages_in_flight
        after == hd.messages_in_flight
        ids == IdsInFlight(mif)
    IN /\ (NewestIsOld(mif) /\ ~HeardSinceNewest(b)) =>
            \E i \in DOMAIN mif :
              /\ \A id \in ids :
                   IndexOf(hd_op.order, mif[i].message.msg_id) <= IndexOf(hd_op.order, id)
              /\ \A j \in DOMAIN mif : mif[j].sent_at <= mif[i].sent_at
              /\ hd_op.lines = << mif[i].message >>
              /\ Len(after) = Len(mif)
              /\ SubSeq(after, 1, Len(after) - 1) = RemoveAt(mif, i)
              /\ after[Len(after)] = [message |-> mif[i].message, sent_at |-> 0]
              /\ hd.last_message_received = b.last_message_received
              /\ hd.node = b.node
       /\ ~NewestIsOld(mif) => hd_op.lines = << >> /\ hd = b

\* a probe with two records in flight, after an earlier probe has moved a
\* record to the end of the list: the record probed is not the first one sent
C19_Witness ==
  /\ hd_op.op = "tick"
  /\ NewestIsOld(hd_op.before.messages_in_flight)
  /\ ~HeardSinceNewest(hd_op.before)
  /\ Len(hd_op.before.messages_in_flight) >= 2
  /\ Len(hd_op.lines) = 1
  /\ hd_op.lines[1] # hd_sent[1]
  /\ hd_sent[1] \in EnvelopesOf(hd_op.before.messages_in_flight)


\* C32: after any calls of send_message, handle_incoming_message and
\* process_resends the in-flight list holds every msg_id at most once and its
\* sent_at never decreases along the list (an Instant is kept as the time
\* elapsed since it, so the elapsed time never increases): the record at
\* index 0 is the oldest, the last one the newest.
C32_InFlightOrdered ==
  LET mif == hd.messages_in_flight IN
  \A i, j \in DOMAIN mif :
    i < j => /\ mif[i].message.msg_id # mif[j].message.msg_id
             /\ mif[i].sent_at >= mif[j].sent_at

\* three records in flight after a tick that probed: the envelope sent first
\* is the last record and the newest, the two before it are older
C32_Witness ==
  LET mif == hd.messages_in_flight IN
  /\ hd_op.op = "tick" /\ Len(hd_op.lines) = 1
  /\ Len(mif) = 3
  /\ mif[3].message = hd_sent[1] /\ mif[3].sent_at = 0
  /\ mif[1].message = hd_sent[2] /\ mif[2].message = hd_sent[3]
  /\ mif[2].sent_at > mif[3].sent_at
(* ------------------------------------------------------------------ *)
(* The seq-kv service (its wire contract)                              *)
(* ------------------------------------------------------------------ *)
KeyDoesNotExist == 20
PreconditionFailed == 22

\* the reply of seq-kv to the request env
KvReply(env, message) ==
  [src |-> SEQ_KV, dest |-> env.src, msg_id |-> None, in_reply_to |-> env.msg_id,
   message |-> message]

\* cas {key, from, to, create_if_not_exists}: the new store and the reply
KvCas(store, env) ==
  LET m == env.message IN
  IF store[m.key] = None
  THEN IF m.create_if_not_exists
       THEN [store |-> [store EXCEPT ![m.key] = m.to],
             reply |-> KvReply(env, [type |-> "cas_ok"])]
       ELSE [store |-> store,
             reply |-> KvReply(env, [type |-> "error", code |-> KeyDoesNotExist])]
  ELSE IF store[m.key] = m.from
       THEN [store |-> [store EXCEPT ![m.key] = m.to],
             reply |-> KvReply(env, [type |-> "cas_ok"])]
       ELSE [store |-> store,
             reply |-> KvReply(env, [type |-> "error", code |-> PreconditionFailed])]

\* read {key}
KvRead(store, env) ==
  IF store[env.message.key] = None
  THEN [store |-> store,
        reply |-> KvReply(env, [type |-> "error", code |-> KeyDoesNotExist])]
  ELSE [store |-> store,
        reply |-> KvReply(env, [type |-> "read_ok", value |-> store[env.message.key]])]

(* ------------------------------------------------------------------ *)
(* counter.rs                                                          *)
(* ------------------------------------------------------------------ *)
\* the msg_id a node of the counter may reach before the model stops feeding it
MaxCounterId == 7
\* the adds clients make
MaxAdds == 2
\* the reads clients make of one node
MaxCounterReads == 2
\* the idle timeouts of one node
MaxProbes == 1
\* the deltas of the adds
MaxDelta == 1

KV_KEY == "total"
\* the node_ids of the harness's init message
CounterNodeIds == << "n1", "n2" >>
CounterNodes == { CounterNodeIds[i] : i \in DOMAIN CounterNodeIds }

\* main's locals before the loop
CounterLocals ==
  [to_add |-> 0, value |-> 0, last_cas_to |-> 0, last_cas_id |-> 0,
   cas_outstanding |-> FALSE]

\* the lines that travel to a node or to seq-kv (the others go to a client)
ToNetwork(lines) ==
  { lines[i] : i \in { j \in DOMAIN lines : lines[j].dest \in NodeNames \cup {SEQ_KV} } }

\* the end of an iteration that sends a CAS whenever to_add != 0
CtEndIteration_mutant_no_outstanding_check(n, s, counter, lines, consumed) ==
  \E issue \in {s.to_add # 0} :
  \E to \in {s.value + s.to_add} :
  \E e \in {EnvelopeNew(counter, n, SEQ_KV, None,
              [type |-> "cas", key |-> KV_KEY, from |-> s.value, to |-> to,
               create_if_not_exists |-> FALSE])} :
    /\ (IF issue THEN e.counter ELSE counter) <= MaxCounterId
    /\ ct_node' = [ct_node EXCEPT ![n] =
                     IF issue
                     THEN [s EXCEPT !.last_cas_to = to, !.last_cas_id = e.env.msg_id,
                                    !.cas_outstanding = TRUE]
                     ELSE s]
    /\ MESSAGE_ID' = [MESSAGE_ID EXCEPT ![n] = IF issue THEN e.counter ELSE counter]
    /\ network' = (network \ consumed)
                    \cup ToNetwork(IF issue THEN Append(lines, e.env) ELSE lines)

\* the end of one iteration of main's loop, after the match: s are the
\* locals, counter the process's MESSAGE_ID and lines what the arm wrote;
\* if to_add != 0 && !cas_outstanding a CAS from value to value + to_add is sent
CtEndIteration(n, s, counter, lines, consumed) ==
  \E issue \in {s.to_add # 0 /\ ~s.cas_outstanding} :
  \E to \in {s.value + s.to_add} :
  \E e \in {EnvelopeNew(counter, n, SEQ_KV, None,
              [type |-> "cas", key |-> KV_KEY, from |-> s.value, to |-> to,
               create_if_not_exists |-> FALSE])} :
    /\ (IF issue THEN e.counter ELSE counter) <= MaxCounterId
    /\ ct_node' = [ct_node EXCEPT ![n] =
                     IF issue
                     THEN [s EXCEPT !.last_cas_to = to, !.last_cas_id = e.env.msg_id,
                                    !.cas_outstanding = TRUE]
                     ELSE s]
    /\ MESSAGE_ID' = [MESSAGE_ID EXCEPT ![n] = IF issue THEN e.counter ELSE counter]
    /\ network' = (network \ consumed)
                    \cup ToNetwork(IF issue THEN Append(lines, e.env) ELSE lines)

\* a request of a client to node n
ClientRequest(n, message) ==
  [src |-> Client, dest |-> n, msg_id |-> 1, in_reply_to |-> None, message |-> message]

\* Message::Init: init_ok, then the CAS that creates the key at 0
CtInit(n) ==
  /\ ct_phase[n] = "start"
  /\ ct_phase' = [ct_phase EXCEPT ![n] = "inited"]
  /\ UNCHANGED <<ct_acked, ct_read_ok, ct_adds, ct_probes, kv_store, envVars, bcVars,
                 stdout, max_written, lost, kfVars, moreVars>>
  /\ \E r \in {EnvelopeReply(MESSAGE_ID[n], ClientRequest(n, [type |-> "init"]),
                             [type |-> "init_ok"])} :
     \E e \in {EnvelopeNew(r.counter, n, SEQ_KV, None,
                 [type |-> "cas", key |-> KV_KEY, from |-> 0, to |-> 0,
                  create_if_not_exists |-> TRUE])} :
       CtEndIteration(n,
         [ct_node[n] EXCEPT !.cas_outstanding = TRUE, !.last_cas_id = e.env.msg_id],
         e.counter, << r.env, e.env >>, {})

\* Message::Topology
CtTopology(n) ==
  /\ ct_phase[n] = "inited"
  /\ ct_phase' = [ct_phase EXCEPT ![n] = "ready"]
  /\ UNCHANGED <<ct_acked, ct_read_ok, ct_adds, ct_probes, kv_store, envVars, bcVars,
                 stdout, max_written, lost, kfVars, moreVars>>
  /\ \E r \in {EnvelopeReply(MESSAGE_ID[n], ClientRequest(n, [type |-> "topology"]),
                             [type |-> "topology_ok"])} :
       CtEndIteration(n, ct_node[n], r.counter, << r.env >>, {})

\* Message::Add from a client
CtAdd(n, delta) ==
  /\ ct_phase[n] = "ready"
  /\ ct_adds < MaxAdds
  /\ ct_adds' = ct_adds + 1
  /\ ct_acked' = ct_acked + delta
  /\ UNCHANGED <<ct_phase, ct_read_ok, ct_probes, kv_store, envVars, bcVars,
                 stdout, max_written, lost, kfVars, moreVars>>
  /\ \E r \in {EnvelopeReply(MESSAGE_ID[n],
                 ClientRequest(n, [type |-> "add", delta |-> delta]),
                 [type |-> "add_ok"])} :
       CtEndIteration(n, [ct_node[n] EXCEPT !.to_add = @ + delta],
                      r.counter, << r.env >>, {})

\* Message::Read from a client
CtRead(n) ==
  /\ ct_phase[n] = "ready"
  /\ Len(ct_read_ok[n]) < MaxCounterReads
  /\ UNCHANGED <<ct_phase, ct_acked, ct_adds, ct_probes, kv_store, envVars, bcVars,
                 stdout, max_written, lost, kfVars, moreVars>>
  /\ \E r \in {EnvelopeReply(MESSAGE_ID[n], ClientRequest(n, [type |-> "read"]),
                 [type |-> "read_ok", value |-> ct_node[n].value])} :
       /\ ct_read_ok' = [ct_read_ok EXCEPT ![n] = Append(@, r.env.message.value)]
       /\ CtEndIteration(n, ct_node[n], r.counter, << r.env >>, {})

\* Message::ReadOk
ReadOkArm(s, env) ==
  IF is_from_node(env)
  THEN IF env.message.value > s.value THEN [s EXCEPT !.value = env.message.value] ELSE s
  ELSE [s EXCEPT !.value = env.message.value]

\* the CasOk arm that leaves to_add as it is
CasOkArm_mutant_keeps_to_add(s, env) ==
  IF env.in_reply_to = s.last_cas_id
  THEN [s EXCEPT !.value = s.last_cas_to, !.last_cas_id = 0, !.cas_outstanding = FALSE]
  ELSE s

\* Message::CasOk
CasOkArm(s, env) ==
  IF env.in_reply_to = s.last_cas_id
  THEN [s EXCEPT !.to_add = 0, !.value = s.last_cas_to, !.last_cas_id = 0,
                 !.cas_outstanding = FALSE]
  ELSE s

\* an envelope from a peer or from seq-kv
CtReceive(n, env) ==
  /\ env \in network /\ env.dest = n
  /\ ct_phase[n] \in {"inited", "ready"}
  /\ UNCHANGED <<ct_acked, ct_read_ok, ct_adds, ct_probes, kv_store, envVars, bcVars,
                 stdout, max_written, lost, kfVars, moreVars>>
  /\ CASE env.message.type = "read" ->
            \* Message::Read from a peer: the same arm as a client's read
            /\ \E r \in {EnvelopeReply(MESSAGE_ID[n], env,
                           [type |-> "read_ok", value |-> ct_node[n].value])} :
                 CtEndIteration(n, ct_node[n], r.counter, << r.env >>, {env})
            /\ UNCHANGED ct_phase
       [] env.message.type = "read_ok" ->
            /\ CtEndIteration(n, ReadOkArm(ct_node[n], env), MESSAGE_ID[n], << >>, {env})
            /\ UNCHANGED ct_phase
       [] env.message.type = "cas_ok" ->
            /\ CtEndIteration(n, CasOkArm(ct_node[n], env), MESSAGE_ID[n], << >>, {env})
            /\ UNCHANGED ct_phase
       [] env.message.type = "error" /\ env.message.code = PreconditionFailed ->
            /\ \E e \in {EnvelopeNew(MESSAGE_ID[n], n, SEQ_KV, None,
                           [type |-> "read", key |-> KV_KEY])} :
                 CtEndIteration(n, [ct_node[n] EXCEPT !.cas_outstanding = FALSE],
                                e.counter, << e.env >>, {env})
            /\ UNCHANGED ct_phase
       [] env.message.type = "error" /\ env.message.code # PreconditionFailed ->
            \* panic!("Unexpected error"): the process ends
            /\ ct_phase' = [ct_phase EXCEPT ![n] = "panicked"]
            /\ network' = network \ {env}
            /\ UNCHANGED <<MESSAGE_ID, ct_node>>

\* the envelopes a timeout sends: a read to every other node
RECURSIVE Probes(_, _, _)
Probes(n, counter, peers) ==
  IF peers = << >> THEN [counter |-> counter, lines |-> << >>]
  ELSE IF Head(peers) = n THEN Probes(n, counter, Tail(peers))
  ELSE LET e == EnvelopeNew(counter, n, Head(peers), None, [type |-> "read"])
           rest == Probes(n, e.counter, Tail(peers))
       IN [counter |-> rest.counter, lines |-> << e.env >> \o rest.lines]

\* Err(RecvTimeoutError::Timeout) with to_add == 0 (with to_add != 0 a CAS is
\* outstanding and the iteration changes nothing)
CtTimeout(n) ==
  /\ ct_phase[n] \in {"inited", "ready"}
  /\ ct_node[n].to_add = 0
  /\ ct_probes[n] < MaxProbes
  /\ ct_probes' = [ct_probes EXCEPT ![n] = @ + 1]
  /\ UNCHANGED <<ct_phase, ct_acked, ct_read_ok, ct_adds, kv_store, envVars, bcVars,
                 stdout, max_written, lost, kfVars, moreVars>>
  /\ \E p \in {Probes(n, MESSAGE_ID[n], CounterNodeIds)} :
       CtEndIteration(n, ct_node[n], p.counter, p.lines, {})

\* seq-kv answers a request
KvHandle(env) ==
  /\ env \in network /\ env.dest = SEQ_KV
  /\ \E r \in {IF env.message.type = "cas" THEN KvCas(kv_store, env)
               ELSE KvRead(kv_store, env)} :
       /\ kv_store' = r.store
       /\ network' = (network \ {env}) \cup {r.reply}
  /\ UNCHANGED <<MESSAGE_ID, ctVars, envVars, bcVars, stdout, max_written, lost, kfVars, moreVars>>

InitCounter ==
  /\ MESSAGE_ID = [n \in NodeNames |-> 0]
  /\ network = {}
  /\ stdout = Unused /\ max_written = Unused /\ lost = Unused
  /\ kv_store = [k \in {KV_KEY} |-> None]
  /\ ct_phase = [n \in CounterNodes |-> "start"]
  /\ ct_node = [n \in CounterNodes |-> CounterLocals]
  /\ ct_acked = 0
  /\ ct_read_ok = [n \in CounterNodes |-> << >>]
  /\ ct_adds = 0
  /\ ct_probes = [n \in CounterNodes |-> 0]
  /\ EnvIdle /\ BcIdle /\ KfIdle /\ MoreIdle

NextCounter ==
  \/ \E n \in CounterNodes : CtInit(n)
  \/ \E n \in CounterNodes : CtTopology(n)
  \/ \E n \in CounterNodes, delta \in 1..MaxDelta : CtAdd(n, delta)
  \/ \E n \in CounterNodes : CtRead(n)
  \/ \E n \in CounterNodes, env \in network : CtReceive(n, env)
  \/ \E n \in CounterNodes : CtTimeout(n)
  \/ \E env \in network : KvHandle(env)

SpecCounter == InitCounter /\ [][NextCounter]_vars

(* ------------------------------------------------------------------ *)
(* Claims about counter.rs                                             *)
(* ------------------------------------------------------------------ *)
\* nothing is in flight, no node has a pending delta or an outstanding CAS,
\* and the nodes hold the same value, so a probe changes nothing
CtQuiescent ==
  /\ \A n \in CounterNodes : ct_phase[n] = "ready"
  /\ network = {}
  /\ \A n \in CounterNodes : ct_node[n].to_add = 0 /\ ~ct_node[n].cas_outstanding
  /\ \A n, m \in CounterNodes : ct_node[n].value = ct_node[m].value

\* C1: after quiescence every node's read returns the sum of the deltas of
\* the adds that were answered add_ok on any node.
C1_QuiescentReadIsSum ==
  CtQuiescent => \A n \in CounterNodes : ct_node[n].value = ct_acked

\* C2: the values one node returns in read_ok to clients never decrease.
C2_ReadsNonDecreasing ==
  \A n \in CounterNodes :
    \A i, j \in DOMAIN ct_read_ok[n] : i < j => ct_read_ok[n][i] <= ct_read_ok[n][j]

\* the step takes the cas_ok env out of node n's channel
CasOkTaken(n, env) ==
  /\ env \in network /\ env \notin network'
  /\ env.dest = n /\ env.src = SEQ_KV /\ env.message.type = "cas_ok"

\* the descriptor of the outstanding cas
CasDescriptor(s) == << s.cas_outstanding, s.last_cas_id, s.last_cas_to >>

RECURSIVE SumToAdd(_)
SumToAdd(S) ==
  IF S = {} THEN 0
  ELSE LET n == CHOOSE n \in S : TRUE IN ct_node[n].to_add + SumToAdd(S \ {n})

\* the value of key total at seq-kv, 0 while the key does not exist
KvTotal == IF kv_store[KV_KEY] = None THEN 0 ELSE kv_store[KV_KEY]

\* C31: whenever no cas is outstanding at any node and nothing is in transit,
\* the value of total at seq-kv plus the sum of the nodes' to_add is the sum
\* of the deltas answered add_ok: no add that arrives while a cas is
\* outstanding is lost or counted twice.
C31_CounterConservation ==
  (/\ network = {}
   /\ \A n \in CounterNodes : ~ct_node[n].cas_outstanding)
  => KvTotal + SumToAdd(CounterNodes) = ct_acked
(* ------------------------------------------------------------------ *)
(* kafka.rs                                                            *)
(*                                                                     *)
(* A process has two threads that read the input: main, which skips    *)
(* the envelopes of seq-kv, and the XidAssigner, which skips all       *)
(* others.  main blocks in get_xid until the assigner answers.         *)
(* ------------------------------------------------------------------ *)
\* the sends clients make
MaxSends == 3
\* the polls clients make
MaxPolls == 2

XID_KEY == "xid"
\* the node_ids of the harness's init message
KafkaNodeIds == << "n1", "n2" >>
KafkaNodes == { KafkaNodeIds[i] : i \in DOMAIN KafkaNodeIds }
\* the key clients send to and poll, and the offset they poll from
KafkaKey == "k1"
PollOffsets == [k \in {KafkaKey} |-> 0]

\* other_nodes of node n, in the order of node_ids
RECURSIVE other_nodes(_, _)
other_nodes(n, ids) ==
  IF ids = << >> THEN << >>
  ELSE IF Head(ids) = n THEN other_nodes(n, Tail(ids))
  ELSE << Head(ids) >> \o other_nodes(n, Tail(ids))

\* sort_unstable that leaves the Vec as it is
sort_unstable_mutant_keeps(log) == log

\* Vec::sort_unstable by Ord for Transaction (transaction_id); the handler
\* never inserts two transactions of one transaction_id, so the order is total
RECURSIVE sort_unstable(_)
sort_unstable(log) ==
  IF log = << >> THEN << >>
  ELSE LET i == CHOOSE i \in DOMAIN log :
                  \A j \in DOMAIN log : log[i].transaction_id <= log[j].transaction_id
       IN << log[i] >> \o sort_unstable(RemoveAt(log, i))

\* the Transactions arm: push what is not in the log by transaction_id, then sort
RECURSIVE push_new(_, _)
push_new(log, transactions) ==
  IF transactions = << >> THEN log
  ELSE LET new_txn == Head(transactions) IN
       IF \E i \in DOMAIN log : log[i].transaction_id = new_txn.transaction_id
       THEN push_new(log, Tail(transactions))
       ELSE push_new(Append(log, new_txn), Tail(transactions))

\* transaction_log.last().map(|t| t.transaction_id).unwrap_or(0)
last_xid(log) == IF log = << >> THEN 0 ELSE log[Len(log)].transaction_id

\* ts[1].transaction_id - ts[0].transaction_id > 1 in usize (a negative
\* difference wraps to a number above 1)
is_gap(a, b) == b.transaction_id - a.transaction_id > 1 \/ b.transaction_id < a.transaction_id

\* windows(2).find(gap).map(|t| t[0].transaction_id).unwrap_or(usize::MAX);
\* None stands for usize::MAX, which no recorded xid exceeds
last_good_txn(log) ==
  IF \E i \in 1..(Len(log) - 1) : is_gap(log[i], log[i + 1])
  THEN log[CHOOSE i \in 1..(Len(log) - 1) :
             /\ is_gap(log[i], log[i + 1])
             /\ \A j \in 1..(i - 1) : ~is_gap(log[j], log[j + 1])].transaction_id
  ELSE None

\* *t <= last_good_txn
is_released(t, good) == good = None \/ t <= good

\* the filter that leaves out the comparison with the polled offset
RECURSIVE poll_msgs_mutant_no_offset(_, _, _)
poll_msgs_mutant_no_offset(log, offsets, key) ==
  IF log = << >> THEN << >>
  ELSE LET transaction == Head(log)
           rest == poll_msgs_mutant_no_offset(Tail(log), offsets, key)
       IN IF transaction.key = key /\ transaction.key \in DOMAIN offsets
          THEN << << transaction.transaction_id, transaction.message >> >> \o rest
          ELSE rest

\* the msgs of poll_ok: per polled key the (xid, message) pairs of the log at
\* or above the polled offset, in log order
RECURSIVE poll_msgs(_, _, _)
poll_msgs(log, offsets, key) ==
  IF log = << >> THEN << >>
  ELSE LET transaction == Head(log)
           rest == poll_msgs(Tail(log), offsets, key)
       IN IF /\ transaction.key = key
             /\ transaction.key \in DOMAIN offsets
             /\ transaction.transaction_id >= offsets[transaction.key]
          THEN << << transaction.transaction_id, transaction.message >> >> \o rest
          ELSE rest

\* the HashMap reply: reply.entry(key).or_default().push(..) makes an entry
\* for a key when its first pair is pushed
poll_reply(log, offsets) ==
  [k \in { key \in DOMAIN offsets : poll_msgs(log, offsets, key) # << >> } |->
     poll_msgs(log, offsets, k)]

\* the largest h with every xid of 1..h in the log
contiguous_prefix(log) ==
  LET ids == { log[i].transaction_id : i \in DOMAIN log }
  IN CHOOSE h \in 0..Len(log) : (1..h) \subseteq ids /\ (h + 1) \notin ids

\* the release loop that answers the released polls last one first
RECURSIVE release_polls_mutant_lifo(_, _, _, _)
release_polls_mutant_lifo(n, counter, polls, log) ==
  IF polls = << >>
  THEN [counter |-> counter, lines |-> << >>, kept |-> << >>, answered |-> << >>]
  ELSE LET t == Head(polls).t
           env == Head(polls).env
       IN IF is_released(t, last_good_txn(log))
          THEN LET rest == release_polls_mutant_lifo(n, counter, Tail(polls), log)
                   r == EnvelopeReply(rest.counter, env,
                          [type |-> "poll_ok", msgs |-> poll_reply(log, env.message.offsets)])
               IN [counter |-> r.counter, lines |-> rest.lines \o << r.env >>,
                   kept |-> rest.kept,
                   answered |-> rest.answered \o
                                << [t |-> t, h |-> contiguous_prefix(log), log |-> log,
                                    behind |-> Len(polls) - 1, env |-> r.env] >>]
          ELSE LET rest == release_polls_mutant_lifo(n, counter, Tail(polls), log)
               IN [counter |-> rest.counter, lines |-> rest.lines,
                   kept |-> << Head(polls) >> \o rest.kept, answered |-> rest.answered]

\* while let Some(idx) = poll_replies.iter().position(released): the polls
\* answered, in order, and the polls kept; answered notes for each poll_ok
\* written the poll's recorded xid t, the contiguous prefix h of the log, the
\* log it was built from, the polls behind it in poll_replies and the reply
RECURSIVE release_polls(_, _, _, _)
release_polls(n, counter, polls, log) ==
  IF polls = << >>
  THEN [counter |-> counter, lines |-> << >>, kept |-> << >>, answered |-> << >>]
  ELSE LET t == Head(polls).t
           env == Head(polls).env
       IN IF is_released(t, last_good_txn(log))
          THEN LET r == EnvelopeReply(counter, env,
                          [type |-> "poll_ok", msgs |-> poll_reply(log, env.message.offsets)])
                   rest == release_polls(n, r.counter, Tail(polls), log)
               IN [counter |-> rest.counter, lines |-> << r.env >> \o rest.lines,
                   kept |-> rest.kept,
                   answered |-> << [t |-> t, h |-> contiguous_prefix(log), log |-> log,
                                    behind |-> Len(polls) - 1, env |-> r.env] >>
                                \o rest.answered]
          ELSE LET rest == release_polls(n, counter, Tail(polls), log)
               IN [counter |-> rest.counter, lines |-> rest.lines,
                   kept |-> << Head(polls) >> \o rest.kept, answered |-> rest.answered]

\* the end of one iteration of main's loop: if !poll_replies.is_empty() the
\* released polls are answered
KfEndIteration(n, log, polls, counter, lines, consumed) ==
  \E rel \in {release_polls(n, counter, polls, log)} :
    /\ transaction_log' = [transaction_log EXCEPT ![n] = log]
    /\ poll_replies' = [poll_replies EXCEPT ![n] = rel.kept]
    /\ MESSAGE_ID' = [MESSAGE_ID EXCEPT ![n] = rel.counter]
    /\ kf_poll_ok' = [kf_poll_ok EXCEPT ![n] = @ \o rel.answered]
    /\ network' = (network \ consumed) \cup ToNetwork(lines \o rel.lines)

MainAtRecv == [at |-> "recv"]

\* Message::Init in the first loop, then XidAssigner::start
KfInit(n) ==
  /\ kf_phase[n] = "start"
  /\ kf_phase' = [kf_phase EXCEPT ![n] = "running"]
  /\ xa_pc' = [xa_pc EXCEPT ![n] = "spawned"]
  /\ \E r \in {EnvelopeReply(MESSAGE_ID[n], ClientRequest(n, [type |-> "init"]),
                             [type |-> "init_ok"])} :
       MESSAGE_ID' = [MESSAGE_ID EXCEPT ![n] = r.counter]
  /\ UNCHANGED <<network, transaction_log, poll_replies, main_pc, xid_ready,
                 last_seen_xid, kf_assigned, kf_send_ok, kf_poll_ok, kf_sends, kf_polls,
                 lost, kv_store, stdout, max_written, envVars, bcVars, ctVars, moreVars>>

\* XidAssigner::initialize_xid up to its wait for the reply
XaInitialize(n) ==
  /\ xa_pc[n] = "spawned"
  /\ xa_pc' = [xa_pc EXCEPT ![n] = "initialize_xid"]
  /\ \E e \in {EnvelopeNew(MESSAGE_ID[n], n, SEQ_KV, None,
                 [type |-> "cas", key |-> XID_KEY, from |-> 0, to |-> 0,
                  create_if_not_exists |-> TRUE])} :
       /\ MESSAGE_ID' = [MESSAGE_ID EXCEPT ![n] = e.counter]
       /\ network' = network \cup {e.env}
  /\ UNCHANGED <<kf_phase, transaction_log, poll_replies, main_pc, xid_ready,
                 last_seen_xid, kf_assigned, kf_send_ok, kf_poll_ok, kf_sends, kf_polls,
                 lost, kv_store, stdout, max_written, envVars, bcVars, ctVars, moreVars>>

\* Message::Send up to xid_assigner.get_xid(), where main blocks
KfSend(n, msg) ==
  /\ kf_phase[n] = "running" /\ main_pc[n] = MainAtRecv
  /\ kf_sends < MaxSends
  /\ msg = kf_sends + 1
  /\ kf_sends' = kf_sends + 1
  /\ main_pc' = [main_pc EXCEPT ![n] =
       [at |-> "get_xid",
        envelope |-> ClientRequest(n, [type |-> "send", key |-> KafkaKey, msg |-> msg])]]
  /\ UNCHANGED <<MESSAGE_ID, network, kf_phase, transaction_log, poll_replies, xid_ready,
                 xa_pc, last_seen_xid, kf_assigned, kf_send_ok, kf_poll_ok, kf_polls,
                 lost, kv_store, stdout, max_written, envVars, bcVars, ctVars, moreVars>>

\* try_cas that waits for a reply without having sent the cas
XaTryCas_mutant_sends_nothing(n) ==
  /\ \/ xa_pc[n] = "generate_xid"
     \/ xa_pc[n] = "idle" /\ main_pc[n].at = "get_xid" /\ xid_ready[n] = None
  /\ xa_pc' = [xa_pc EXCEPT ![n] = "try_cas"]
  /\ UNCHANGED <<MESSAGE_ID, network, kf_phase, transaction_log, poll_replies, main_pc,
                 xid_ready, last_seen_xid, kf_assigned, kf_send_ok, kf_poll_ok, kf_sends,
                 kf_polls, lost, kv_store, stdout, max_written, envVars, bcVars, ctVars,
                 moreVars>>

\* XidAssigner::try_cas up to its wait for the reply: for a request taken
\* from request_receiver, or again in the loop of generate_xid
XaTryCas(n) ==
  /\ \/ xa_pc[n] = "generate_xid"
     \/ xa_pc[n] = "idle" /\ main_pc[n].at = "get_xid" /\ xid_ready[n] = None
  /\ xa_pc' = [xa_pc EXCEPT ![n] = "try_cas"]
  /\ \E e \in {EnvelopeNew(MESSAGE_ID[n], n, SEQ_KV, None,
                 [type |-> "cas", key |-> XID_KEY, from |-> last_seen_xid[n],
                  to |-> last_seen_xid[n] + 1, create_if_not_exists |-> FALSE])} :
       /\ MESSAGE_ID' = [MESSAGE_ID EXCEPT ![n] = e.counter]
       /\ network' = network \cup {e.env}
  /\ UNCHANGED <<kf_phase, transaction_log, poll_replies, main_pc, xid_ready,
                 last_seen_xid, kf_assigned, kf_send_ok, kf_poll_ok, kf_sends, kf_polls,
                 lost, kv_store, stdout, max_written, envVars, bcVars, ctVars, moreVars>>

\* try_cas that takes any reply for cas_ok
try_cas_mutant_any_reply(last_seen, env) ==
  [last_seen_xid |-> last_seen + 1, xid |-> last_seen + 1, panic |-> FALSE]
\* the match of try_cas on the reply env: Some(possible_xid) and the new
\* last_seen_xid, None (xid = None), or a panic
try_cas(last_seen, env) ==
  CASE env.message.type = "cas_ok" ->
         [last_seen_xid |-> last_seen + 1, xid |-> last_seen + 1, panic |-> FALSE]
    [] env.message.type = "error" /\ env.message.code = PreconditionFailed ->
         [last_seen_xid |-> last_seen, xid |-> None, panic |-> FALSE]
    [] OTHER -> [last_seen_xid |-> last_seen, xid |-> None, panic |-> TRUE]

\* fetch_last_xid up to its wait for the reply
XaFetchSent(n, env, pc) ==
  \E e \in {EnvelopeNew(MESSAGE_ID[n], n, SEQ_KV, None, [type |-> "read", key |-> XID_KEY])} :
    /\ MESSAGE_ID' = [MESSAGE_ID EXCEPT ![n] = e.counter]
    /\ network' = (network \ {env}) \cup {e.env}
    /\ xa_pc' = [xa_pc EXCEPT ![n] = pc]

\* the process ends: panic::set_hook calls process::exit(1)
KfPanic(n, env) ==
  /\ kf_phase' = [kf_phase EXCEPT ![n] = "panicked"]
  /\ network' = network \ {env}
  /\ UNCHANGED <<MESSAGE_ID, xa_pc, last_seen_xid, xid_ready, kf_assigned>>

\* the assigner thread takes the next envelope of seq-kv from its receiver
XaReceive(n, env) ==
  /\ env \in network /\ env.dest = n /\ env.src = SEQ_KV
  /\ kf_phase[n] = "running"
  /\ UNCHANGED <<transaction_log, poll_replies, main_pc, kf_send_ok, kf_poll_ok,
                 kf_sends, kf_polls, lost, kv_store, stdout, max_written,
                 envVars, bcVars, ctVars, moreVars>>
  /\ CASE xa_pc[n] = "initialize_xid" ->
            CASE env.message.type = "cas_ok" ->
                   /\ last_seen_xid' = [last_seen_xid EXCEPT ![n] = 0]
                   /\ xa_pc' = [xa_pc EXCEPT ![n] = "idle"]
                   /\ network' = network \ {env}
                   /\ UNCHANGED <<MESSAGE_ID, kf_phase, xid_ready, kf_assigned>>
              [] env.message.type = "error" /\ env.message.code = PreconditionFailed ->
                   /\ XaFetchSent(n, env, "initialize_fetch")
                   /\ UNCHANGED <<kf_phase, last_seen_xid, xid_ready, kf_assigned>>
              [] OTHER -> KfPanic(n, env)
       [] xa_pc[n] \in {"initialize_fetch", "fetch_last_xid"} ->
            IF env.message.type = "read_ok"
            THEN /\ last_seen_xid' = [last_seen_xid EXCEPT ![n] = env.message.value]
                 /\ xa_pc' = [xa_pc EXCEPT ![n] =
                      IF xa_pc[n] = "initialize_fetch" THEN "idle" ELSE "generate_xid"]
                 /\ network' = network \ {env}
                 /\ UNCHANGED <<MESSAGE_ID, kf_phase, xid_ready, kf_assigned>>
            ELSE KfPanic(n, env)
       [] xa_pc[n] = "try_cas" ->
            \E r \in {try_cas(last_seen_xid[n], env)} :
              IF r.panic THEN KfPanic(n, env)
              ELSE IF r.xid # None
              THEN \* generate_xid returns; response_channel.send(xid)
                   /\ last_seen_xid' = [last_seen_xid EXCEPT ![n] = r.last_seen_xid]
                   /\ xid_ready' = [xid_ready EXCEPT ![n] = r.xid]
                   /\ kf_assigned' = Append(kf_assigned, [node |-> n, xid |-> r.xid])
                   /\ xa_pc' = [xa_pc EXCEPT ![n] = "idle"]
                   /\ network' = network \ {env}
                   /\ UNCHANGED <<MESSAGE_ID, kf_phase>>
              ELSE \* generate_xid: self.last_seen_xid = self.fetch_last_xid()
                   /\ XaFetchSent(n, env, "fetch_last_xid")
                   /\ UNCHANGED <<kf_phase, last_seen_xid, xid_ready, kf_assigned>>

\* the Transactions envelopes of the Send arm, one per other node
RECURSIVE SendTransactions(_, _, _, _)
SendTransactions(n, counter, others, transactions) ==
  IF others = << >> THEN [counter |-> counter, lines |-> << >>]
  ELSE LET e == EnvelopeNew(counter, n, Head(others), None,
                  [type |-> "transactions", transactions |-> transactions])
           rest == SendTransactions(n, e.counter, Tail(others), transactions)
       IN [counter |-> rest.counter, lines |-> << e.env >> \o rest.lines]

\* Message::Send from get_xid's return on
KfSendResume(n) ==
  /\ kf_phase[n] = "running"
  /\ main_pc[n].at = "get_xid" /\ xid_ready[n] # None
  /\ main_pc[n].envelope.message.type = "send"
  /\ main_pc' = [main_pc EXCEPT ![n] = MainAtRecv]
  /\ xid_ready' = [xid_ready EXCEPT ![n] = None]
  /\ UNCHANGED <<kf_phase, xa_pc, last_seen_xid, kf_assigned, kf_sends, kf_polls,
                 lost, kv_store, stdout, max_written, envVars, bcVars, ctVars, moreVars>>
  /\ \E envelope \in {main_pc[n].envelope} :
     \E transaction \in {[node |-> n, transaction_id |-> xid_ready[n],
                          key |-> envelope.message.key, message |-> envelope.message.msg]} :
     \E out \in {SendTransactions(n, MESSAGE_ID[n], other_nodes(n, KafkaNodeIds),
                                  << transaction >>)} :
     \E r \in {EnvelopeReply(out.counter, envelope,
                 [type |-> "send_ok", offset |-> xid_ready[n]])} :
       /\ kf_send_ok' = kf_send_ok \cup {transaction}
       /\ KfEndIteration(n, Append(transaction_log[n], transaction), poll_replies[n],
                         r.counter, out.lines \o << r.env >>, {})

\* Message::Poll from a client
KfPoll(n) ==
  /\ kf_phase[n] = "running" /\ main_pc[n] = MainAtRecv
  /\ kf_polls < MaxPolls
  /\ kf_polls' = kf_polls + 1
  /\ UNCHANGED <<kf_phase, main_pc, xid_ready, xa_pc, last_seen_xid, kf_assigned,
                 kf_send_ok, kf_sends, lost, kv_store, stdout, max_written,
                 envVars, bcVars, ctVars, moreVars>>
  /\ \E envelope \in {[ClientRequest(n, [type |-> "poll", offsets |-> PollOffsets])
                          EXCEPT !.msg_id = kf_polls + 1]} :
       KfEndIteration(n, transaction_log[n],
         Append(poll_replies[n], [t |-> last_xid(transaction_log[n]), env |-> envelope]),
         MESSAGE_ID[n], << >>, {})

\* Message::Transactions from a peer
KfTransactions(n, env) ==
  /\ env \in network /\ env.dest = n /\ env.src # SEQ_KV
  /\ env.message.type = "transactions"
  /\ kf_phase[n] = "running" /\ main_pc[n] = MainAtRecv
  /\ UNCHANGED <<kf_phase, main_pc, xid_ready, xa_pc, last_seen_xid, kf_assigned,
                 kf_send_ok, kf_sends, kf_polls, lost, kv_store, stdout, max_written,
                 envVars, bcVars, ctVars, moreVars>>
  /\ KfEndIteration(n,
       sort_unstable(push_new(transaction_log[n], env.message.transactions)),
       poll_replies[n], MESSAGE_ID[n], << >>, {env})

\* the network drops an envelope that travels between two nodes
KfLose(env) ==
  /\ env \in network /\ env.dest \in KafkaNodes /\ env.src \in KafkaNodes
  /\ lost < MaxLoss
  /\ lost' = lost + 1
  /\ network' = network \ {env}
  /\ UNCHANGED <<MESSAGE_ID, kfVars, kv_store, stdout, max_written, envVars, bcVars, ctVars, moreVars>>

InitKafka ==
  /\ MESSAGE_ID = [n \in NodeNames |-> 0]
  /\ network = {}
  /\ lost = 0
  /\ stdout = Unused /\ max_written = Unused
  /\ kv_store = [k \in {XID_KEY} |-> None]
  /\ kf_phase = [n \in KafkaNodes |-> "start"]
  /\ transaction_log = [n \in KafkaNodes |-> << >>]
  /\ poll_replies = [n \in KafkaNodes |-> << >>]
  /\ main_pc = [n \in KafkaNodes |-> MainAtRecv]
  /\ xid_ready = [n \in KafkaNodes |-> None]
  /\ xa_pc = [n \in KafkaNodes |-> "unborn"]
  /\ last_seen_xid = [n \in KafkaNodes |-> 0]
  /\ kf_assigned = << >>
  /\ kf_send_ok = {}
  /\ kf_poll_ok = [n \in KafkaNodes |-> << >>]
  /\ kf_sends = 0
  /\ kf_polls = 0
  /\ EnvIdle /\ BcIdle /\ CtIdle /\ MoreIdle

NextKafka ==
  \/ \E n \in KafkaNodes : KfInit(n)
  \/ \E n \in KafkaNodes : XaInitialize(n)
  \/ \E n \in KafkaNodes, msg \in 1..MaxSends : KfSend(n, msg)
  \/ \E n \in KafkaNodes : XaTryCas(n)
  \/ \E n \in KafkaNodes, env \in network : XaReceive(n, env)
  \/ \E n \in KafkaNodes : KfSendResume(n)
  \/ \E n \in KafkaNodes : KfPoll(n)
  \/ \E n \in KafkaNodes, env \in network : KfTransactions(n, env)
  \/ \E env \in network : KfLose(env)
  \/ \E env \in network : KvHandle(env)

SpecKafka == InitKafka /\ [][NextKafka]_vars

(* ------------------------------------------------------------------ *)
(* Claims about kafka.rs                                               *)
(* ------------------------------------------------------------------ *)
\* C3: a poll whose recorded latest xid exceeds h, the largest xid with
\* every xid of 1..h in the log, is not answered: every poll_ok was written
\* with the poll's recorded xid at most h.
C3_PollWithheldWhileGap ==
  \A n \in KafkaNodes : \A i \in DOMAIN kf_poll_ok[n] :
    kf_poll_ok[n][i].t <= kf_poll_ok[n][i].h

\* C4: the xids the assigners hand out are pairwise distinct over all nodes
\* and strictly increasing in assignment order on each node, and so are the
\* offsets of send_ok.
C4_XidsDistinctIncreasing ==
  /\ \A i, j \in DOMAIN kf_assigned :
       i < j => /\ kf_assigned[i].xid # kf_assigned[j].xid
                /\ kf_assigned[i].node = kf_assigned[j].node
                     => kf_assigned[i].xid < kf_assigned[j].xid
  /\ \A a, b \in kf_send_ok : a # b => a.transaction_id # b.transaction_id
  /\ \A a \in kf_send_ok :
       \E i \in DOMAIN kf_assigned :
         kf_assigned[i] = [node |-> a.node, xid |-> a.transaction_id]

\* both nodes were handed an xid, and the second node got its xid after a
\* CAS that failed and a read: it has constructed init_ok and at least four
\* envelopes of the assigner (the CAS of initialize_xid, a CAS, a read, a CAS)
C4_Witness ==
  \E n, m \in KafkaNodes :
    /\ n # m
    /\ xid_ready[n] = 2
    /\ kf_assigned = << [node |-> m, xid |-> 1], [node |-> n, xid |-> 2] >>
    /\ kf_poll_ok[n] = << >>
    /\ \A a \in kf_send_ok : a.node # n
    /\ MESSAGE_ID[n] >= 5

\* nothing travels and no thread is at work
KfSettled ==
  /\ network = {}
  /\ \A n \in KafkaNodes :
       kf_phase[n] = "running" /\ main_pc[n] = MainAtRecv /\ xa_pc[n] = "idle"

\* C5: once nothing travels any more, every transaction a client got send_ok
\* for is in every node's log, also when the network dropped the
\* transactions message that carried it.
C5_AckedSendInEveryLog ==
  KfSettled =>
    \A a \in kf_send_ok : \A n \in KafkaNodes :
      \E i \in DOMAIN transaction_log[n] : transaction_log[n][i] = a

\* C16: at every node the poll_ok replies are written in the order in which
\* their polls arrived, and no poll is answered while a poll that arrived
\* earlier at the node is still held (the clients number their polls in the
\* order in which they make them).
C16_PollsReleasedFifo ==
  \A n \in KafkaNodes :
    /\ \A i, j \in DOMAIN kf_poll_ok[n] :
         i < j => kf_poll_ok[n][i].env.in_reply_to < kf_poll_ok[n][j].env.in_reply_to
    /\ \A i \in DOMAIN kf_poll_ok[n] : \A p \in DOMAIN poll_replies[n] :
         kf_poll_ok[n][i].env.in_reply_to < poll_replies[n][p].env.msg_id

\* two polls were held at one node at once and then answered: the first one
\* answered still had the other behind it in poll_replies
C16_Witness ==
  \E n \in KafkaNodes :
    /\ Len(kf_poll_ok[n]) = 2
    /\ kf_poll_ok[n][1].behind = 1
    /\ kf_poll_ok[n][1].t > 0

\* the xid assigner of n is at work for a request of main: main waits in
\* get_xid for the xid, the assigner for a reply of seq-kv
XidPending(n) ==
  /\ kf_phase[n] = "running"
  /\ main_pc[n].at = "get_xid"
  /\ xid_ready[n] = None

\* C21 (as stated): while an xid assignment waits for the reply of seq-kv,
\* main still takes the envelopes that arrive: a transactions message that
\* has reached the node can be handled, and so can a client's poll.
C21_MainServesWhileXidPending ==
  \A n \in KafkaNodes :
    XidPending(n) =>
      /\ \A env \in network :
           (env.dest = n /\ env.message.type = "transactions")
             => ENABLED KfTransactions(n, env)
      /\ kf_polls < MaxPolls => ENABLED KfPoll(n)


\* The xid assigners with their clients and seq-kv: the sends, the threads
\* of the assigners, seq-kv and the Transactions arm; no poll, no loss.
NextKafkaXid ==
  \/ \E n \in KafkaNodes : KfInit(n)
  \/ \E n \in KafkaNodes : XaInitialize(n)
  \/ \E n \in KafkaNodes, msg \in 1..MaxSends : KfSend(n, msg)
  \/ \E n \in KafkaNodes : XaTryCas(n)
  \/ \E n \in KafkaNodes, env \in network : XaReceive(n, env)
  \/ \E n \in KafkaNodes : KfSendResume(n)
  \/ \E n \in KafkaNodes, env \in network : KfTransactions(n, env)
  \/ \E env \in network : KvHandle(env)

\* the assigner thread is scheduled, its envelopes reach it, and seq-kv
\* answers every request of every node
FairKafkaXid ==
  \A n \in KafkaNodes :
    /\ WF_vars(XaInitialize(n))
    /\ WF_vars(XaTryCas(n))
    /\ WF_vars(\E env \in network : XaReceive(n, env))
    /\ WF_vars(\E env \in network : env.src = n /\ KvHandle(env))

FairSpecKafkaXid == InitKafka /\ [][NextKafkaXid]_vars /\ FairKafkaXid

\* C30: generate_xid returns: when main of a node waits in get_xid, the
\* assigner hands it an xid after finitely many cas and read rounds, the
\* other nodes incrementing the key at most MaxSends times in all.
C30_GenerateXidReturns ==
  \A n \in KafkaNodes : (main_pc[n].at = "get_xid") ~> (xid_ready[n] # None)

\* a node was handed xid 3 after the other node took 1 and 2: its cas from a
\* stale last_seen_xid failed, it read the key and its next cas succeeded
C30_Witness ==
  \E n, m \in KafkaNodes :
    /\ n # m
    /\ main_pc[n].at = "get_xid"
    /\ xid_ready[n] = 3
    /\ kf_assigned = << [node |-> m, xid |-> 1], [node |-> m, xid |-> 2],
                        [node |-> n, xid |-> 3] >>
    /\ \A a \in kf_send_ok : a.node # n
    /\ MESSAGE_ID[n] >= 5

\* the keys of the offsets a client commits
CommitKeys == {"k1", "k2"}
\* the offset committed for every key
CommitOffset == 1

\* format!("offsets:{key}")
offsets_key(key) == "offsets:" \o key

\* Message::CommitOffsets up to the first xid_assigner.get_xid(): the for
\* loop takes the keys of the HashMap in some order
KfCommitOffsets(n, order) ==
  /\ kf_phase[n] = "running" /\ main_pc[n] = MainAtRecv
  /\ kf_sends + Len(order) <= MaxSends
  /\ kf_sends' = kf_sends + Len(order)
  /\ main_pc' = [main_pc EXCEPT ![n] =
       [at |-> "get_xid",
        envelope |-> ClientRequest(n, [type |-> "commit_offsets",
                       offsets |-> [k \in { order[i] : i \in DOMAIN order } |-> CommitOffset]]),
        keys |-> order, transactions |-> << >>]]
  /\ UNCHANGED <<MESSAGE_ID, network, kf_phase, transaction_log, poll_replies, xid_ready,
                 xa_pc, last_seen_xid, kf_assigned, kf_send_ok, kf_poll_ok, kf_polls,
                 lost, kv_store, stdout, max_written, envVars, bcVars, ctVars, moreVars>>

\* Message::CommitOffsets from a return of get_xid on: the transaction is
\* pushed; after the last key the transactions go to the other nodes and
\* commit_offsets_ok to the client
KfCommitResume(n) ==
  /\ kf_phase[n] = "running"
  /\ main_pc[n].at = "get_xid" /\ xid_ready[n] # None
  /\ main_pc[n].envelope.message.type = "commit_offsets"
  /\ xid_ready' = [xid_ready EXCEPT ![n] = None]
  /\ UNCHANGED <<kf_phase, xa_pc, last_seen_xid, kf_assigned, kf_send_ok, kf_sends,
                 kf_polls, lost, kv_store, stdout, max_written, envVars, bcVars, ctVars,
                 moreVars>>
  /\ \E envelope \in {main_pc[n].envelope} :
     \E key \in {Head(main_pc[n].keys)} :
     \E txn \in {[node |-> n, transaction_id |-> xid_ready[n], key |-> offsets_key(key),
                  message |-> envelope.message.offsets[key]]} :
     \E transactions \in {Append(main_pc[n].transactions, txn)} :
       IF Tail(main_pc[n].keys) # << >>
       THEN /\ main_pc' = [main_pc EXCEPT ![n].keys = Tail(@),
                                          ![n].transactions = transactions]
            /\ transaction_log' = [transaction_log EXCEPT ![n] = Append(@, txn)]
            /\ UNCHANGED <<MESSAGE_ID, network, poll_replies, kf_poll_ok>>
       ELSE \E out \in {SendTransactions(n, MESSAGE_ID[n], other_nodes(n, KafkaNodeIds),
                                         transactions)} :
            \E r \in {EnvelopeReply(out.counter, envelope, [type |-> "commit_offsets_ok"])} :
              /\ main_pc' = [main_pc EXCEPT ![n] = MainAtRecv]
              /\ KfEndIteration(n, Append(transaction_log[n], txn), poll_replies[n],
                                r.counter, out.lines \o << r.env >>, {})

\* The log of kafka.rs under sends, commits and gossip: the sends and commits
\* of clients, the xid assigners, seq-kv and the Transactions arm.
NextKafkaLog ==
  \/ \E n \in KafkaNodes : KfInit(n)
  \/ \E n \in KafkaNodes : XaInitialize(n)
  \/ \E n \in KafkaNodes, msg \in 1..MaxSends : KfSend(n, msg)
  \/ \E n \in KafkaNodes : \E keys \in SUBSET CommitKeys :
       \E order \in Orders(keys) : order # << >> /\ KfCommitOffsets(n, order)
  \/ \E n \in KafkaNodes : XaTryCas(n)
  \/ \E n \in KafkaNodes, env \in network : XaReceive(n, env)
  \/ \E n \in KafkaNodes : KfSendResume(n)
  \/ \E n \in KafkaNodes : KfCommitResume(n)
  \/ \E n \in KafkaNodes, env \in network : KfTransactions(n, env)
  \/ \E env \in network : KvHandle(env)

SpecKafkaLog == InitKafka /\ [][NextKafkaLog]_vars

\* C33: every node's transaction_log is strictly increasing in transaction_id
\* after any sends, commits and transactions messages, the pushes of the Send
\* and CommitOffsets arms without a sort included: adjacent xids differ by at
\* least 1.
C33_LogStrictlyIncreasing ==
  \A n \in KafkaNodes :
    \A i \in 1..(Len(transaction_log[n]) - 1) :
      transaction_log[n][i + 1].transaction_id - transaction_log[n][i].transaction_id >= 1

\* a node holds a transaction of the other node and, behind it, the two
\* transactions of a commit of its own, pushed without a sort
C33_Witness ==
  \E n, m \in KafkaNodes :
    /\ n # m
    /\ main_pc[n] = MainAtRecv
    /\ Len(transaction_log[n]) = 3
    /\ transaction_log[n][1].node = m
    /\ transaction_log[n][2].node = n /\ transaction_log[n][3].node = n
    /\ transaction_log[n][2].key # transaction_log[n][3].key
    /\ transaction_log[n][2].key \in { offsets_key(k) : k \in CommitKeys }
    /\ transaction_log[n][3].key \in { offsets_key(k) : k \in CommitKeys }
(* ------------------------------------------------------------------ *)
(* The clients of seq-kv: a cluster of counter.rs or a cluster of      *)
(* kafka.rs, each with the seq-kv service.                             *)
(* ------------------------------------------------------------------ *)
InitKvClients == InitCounter \/ InitKafka

\* which cluster runs: seq-kv holds the key of its workload
CounterRuns == KV_KEY \in DOMAIN kv_store
KafkaRuns == XID_KEY \in DOMAIN kv_store

NextKvClients ==
  \/ CounterRuns /\ NextCounter
  \/ KafkaRuns /\ NextKafka

SpecKvClients == InitKvClients /\ [][NextKvClients]_vars

\* the cas requests of node n that travel to seq-kv, and the replies of
\* seq-kv to a cas that travel to n (seq-kv answers a read of these nodes
\* with read_ok: they read a key only after a cas on it was answered)
UnansweredCas(n) ==
  { env \in network : env.src = n /\ env.dest = SEQ_KV /\ env.message.type = "cas" }
    \cup { env \in network : env.src = SEQ_KV /\ env.dest = n
                              /\ env.message.type \in {"cas_ok", "error"} }

\* C22: at every node at most one cas request is unanswered (sent, and its
\* reply not yet taken by the node) at any time; the counter has a cas
\* unanswered only while cas_outstanding is set, the xid assigner only while
\* it waits in initialize_xid or try_cas.
C22_OneCasUnanswered ==
  /\ CounterRuns =>
       \A n \in CounterNodes :
         /\ Cardinality(UnansweredCas(n)) <= 1
         /\ UnansweredCas(n) # {} => ct_node[n].cas_outstanding
  /\ KafkaRuns =>
       \A n \in KafkaNodes :
         /\ Cardinality(UnansweredCas(n)) <= 1
         /\ UnansweredCas(n) # {} => xa_pc[n] \in {"initialize_xid", "try_cas"}

\* a node of the counter whose cas was refused has its read of the key and
\* its next cas on the way at once
C22_Witness ==
  /\ CounterRuns
  /\ \E n \in CounterNodes :
       /\ \E env \in network : env.src = n /\ env.dest = SEQ_KV /\ env.message.type = "read"
       /\ \E env \in network : env.src = n /\ env.dest = SEQ_KV /\ env.message.type = "cas"

(* ------------------------------------------------------------------ *)
(* txn.rs                                                              *)
(*                                                                     *)
(* A HashMap<u64, u64> is a function whose domain is the set of its    *)
(* keys; node_transactions is a function from the origins it has an    *)
(* entry for to their Vec<Transaction>.                                *)
(* ------------------------------------------------------------------ *)
\* transactions clients submit
MaxTxns == 3
\* operations in one transaction of the cluster specification
MaxOps == 1
\* operations in one transaction handed to the fill-in loop on its own
MaxFillOps == 3
\* keys and values of the operations
MaxKey == 1
MaxWritten == 2
\* keys of the operations handed to the fill-in loop on its own
MaxFillKey == 2

TxnNodeIds == << "n1", "n2" >>
TxnNodes == { TxnNodeIds[i] : i \in DOMAIN TxnNodeIds }

\* Operation: serialized as [optype, key, value], value null for a read not yet filled in
Operations(keys) ==
  { [optype |-> "r", key |-> k, value |-> None] : k \in keys }
    \cup { [optype |-> "w", key |-> k, value |-> v] : k \in keys, v \in 1..MaxWritten }

RECURSIVE OpLists(_, _)
OpLists(keys, n) ==
  IF n = 0 THEN { << >> }
  ELSE LET shorter == OpLists(keys, n - 1) IN
       shorter \cup { Append(l, op) : l \in { s \in shorter : Len(s) = n - 1 },
                                      op \in Operations(keys) }

HashMap_new == << >>
\* HashMap::insert
insert(map, key, value) ==
  [k \in DOMAIN map \cup {key} |-> IF k = key THEN value ELSE map[k]]
\* HashMap::get(..).copied(): None when the key is absent
get(map, key) == IF key \in DOMAIN map THEN map[key] ELSE None

\* the inner loop of roll_up_transactions
RECURSIVE roll_up_operations(_, _)
roll_up_operations(values, operations) ==
  IF operations = << >> THEN values
  ELSE LET operation == Head(operations) IN
       roll_up_operations(
         IF operation.optype = "w" THEN insert(values, operation.key, operation.value)
         ELSE values,
         Tail(operations))

RECURSIVE roll_up_from(_, _)
roll_up_from(values, transactions) ==
  IF transactions = << >> THEN values
  ELSE roll_up_from(roll_up_operations(values, Head(transactions).operations),
                    Tail(transactions))

\* roll_up_transactions
roll_up_transactions(transactions) == roll_up_from(HashMap_new, transactions)

\* rollup.into_iter().chain(elem).collect(): a pair of elem replaces the pair
\* of rollup with the same key
chain_collect(rollup, elem) ==
  [k \in DOMAIN rollup \cup DOMAIN elem |-> IF k \in DOMAIN elem THEN elem[k] ELSE rollup[k]]

\* node_transactions.values().map(roll_up_transactions).reduce(..)
\* .unwrap_or_default(), with values() yielding the origins in the given order
RECURSIVE reduce_from(_, _, _)
reduce_from(rollup, txns, order) ==
  IF order = << >> THEN rollup
  ELSE reduce_from(chain_collect(rollup, roll_up_transactions(txns[Head(order)])),
                   txns, Tail(order))

rolled_up_state(txns, order) ==
  IF order = << >> THEN HashMap_new
  ELSE reduce_from(roll_up_transactions(txns[Head(order)]), txns, Tail(order))

\* the "Fill in the reads" loop that never writes into state
RECURSIVE fill_in_mutant_no_insert(_, _)
fill_in_mutant_no_insert(state, operations) ==
  IF operations = << >> THEN << >>
  ELSE LET op == Head(operations) IN
       IF op.optype = "r"
       THEN << [optype |-> "r", key |-> op.key, value |-> get(state, op.key)] >>
              \o fill_in_mutant_no_insert(state, Tail(operations))
       ELSE << op >> \o fill_in_mutant_no_insert(state, Tail(operations))

\* the "Fill in the reads" loop: filled_in_operations
RECURSIVE fill_in(_, _)
fill_in(state, operations) ==
  IF operations = << >> THEN << >>
  ELSE LET op == Head(operations) IN
       IF op.optype = "r"
       THEN << [optype |-> "r", key |-> op.key, value |-> get(state, op.key)] >>
              \o fill_in(state, Tail(operations))
       ELSE << op >> \o fill_in(insert(state, op.key, op.value), Tail(operations))

\* txns.iter().max_by_key(transaction_id).map(transaction_id).unwrap_or(0)
max_transaction_id(txns) ==
  IF txns = << >> THEN 0
  ELSE CHOOSE x \in { txns[i].transaction_id : i \in DOMAIN txns } :
         \A i \in DOMAIN txns : txns[i].transaction_id <= x

\* the Transactions arm without the txn_is_known test
RECURSIVE merge_transactions_mutant_push_all(_, _)
merge_transactions_mutant_push_all(node_txns, transactions) ==
  IF transactions = << >> THEN node_txns
  ELSE
    LET new_txn == Head(transactions)
        known == IF new_txn.node \in DOMAIN node_txns THEN node_txns[new_txn.node] ELSE << >>
    IN merge_transactions_mutant_push_all(
         [o \in DOMAIN node_txns \cup {new_txn.node} |->
            IF o = new_txn.node THEN Append(known, new_txn) ELSE node_txns[o]],
         Tail(transactions))

\* the Transactions arm: a transaction is pushed, and the Vec sorted, when
\* its origin has no transaction with that id yet
RECURSIVE merge_transactions(_, _)
merge_transactions(node_txns, transactions) ==
  IF transactions = << >> THEN node_txns
  ELSE
    LET new_txn == Head(transactions)
        known == IF new_txn.node \in DOMAIN node_txns THEN node_txns[new_txn.node] ELSE << >>
        txn_is_known ==
          \E i \in DOMAIN known : known[i].transaction_id = new_txn.transaction_id
    IN merge_transactions(
         IF txn_is_known THEN node_txns
         ELSE [o \in DOMAIN node_txns \cup {new_txn.node} |->
                 IF o = new_txn.node THEN sort_unstable(Append(known, new_txn))
                 ELSE node_txns[o]],
         Tail(transactions))

TxCall(n, view, order, request, reply) ==
  [node |-> n, store |-> node_transactions[n], view |-> view, order |-> order,
   request |-> request, reply |-> reply]
NoTxCall == [node |-> "", store |-> << >>, view |-> << >>, order |-> << >>,
             request |-> << >>, reply |-> << >>]

TxSend(lines) ==
  tx_network' = tx_network \cup { lines[i] : i \in { j \in DOMAIN lines : lines[j].dest \in TxnNodes } }

\* Message::Init (the first loop of main)
TxInit(n) ==
  /\ tx_phase[n] = "start"
  /\ LET env == [src |-> Client, dest |-> n, msg_id |-> 1, in_reply_to |-> None,
                 message |-> [type |-> "init"]]
         r == EnvelopeReply(MESSAGE_ID[n], env, [type |-> "init_ok"])
     IN MESSAGE_ID' = [MESSAGE_ID EXCEPT ![n] = r.counter]
  /\ tx_phase' = [tx_phase EXCEPT ![n] = "running"]
  /\ UNCHANGED <<node_transactions, local_xid, tx_pinged, tx_network, tx_op, tx_count, notTxVars>>

\* the thread spawned after init: sleep, then one poll_transactions per other node
TxPinger(n) ==
  /\ tx_phase[n] = "running"
  /\ ~tx_pinged[n]
  /\ LET others == other_nodes(n, TxnNodeIds)
         first_xid(o) == IF o \in DOMAIN node_transactions[n]
                         THEN max_transaction_id(node_transactions[n][o]) ELSE 0
         poll(i) == EnvelopeNew(MESSAGE_ID[n] + i - 1, n, others[i], None,
                      [type |-> "poll_transactions", first_xid |-> first_xid(others[i])])
     IN /\ TxSend([i \in DOMAIN others |-> poll(i).env])
        /\ MESSAGE_ID' = [MESSAGE_ID EXCEPT ![n] = @ + Len(others)]
  /\ tx_pinged' = [tx_pinged EXCEPT ![n] = TRUE]
  /\ UNCHANGED <<tx_phase, node_transactions, local_xid, tx_op, tx_count, notTxVars>>

\* Message::Txn
TxTxn(n, operations) ==
  /\ tx_phase[n] = "running"
  /\ tx_count < MaxTxns
  /\ \E order \in Orders(DOMAIN node_transactions[n]) :
       LET state == rolled_up_state(node_transactions[n], order)
           filled_in_operations == fill_in(state, operations)
           txn == [node |-> n, transaction_id |-> local_xid[n],
                   operations |-> filled_in_operations]
           mine == IF n \in DOMAIN node_transactions[n] THEN node_transactions[n][n]
                   ELSE << >>
           sent == SendTransactions(n, MESSAGE_ID[n], other_nodes(n, TxnNodeIds), << txn >>)
           env == [src |-> Client, dest |-> n, msg_id |-> 10 + tx_count,
                   in_reply_to |-> None,
                   message |-> [type |-> "txn", operations |-> operations]]
           r == EnvelopeReply(sent.counter, env,
                  [type |-> "txn_ok", operations |-> filled_in_operations])
       IN /\ node_transactions' =
               [node_transactions EXCEPT ![n] =
                  [o \in DOMAIN @ \cup {n} |-> IF o = n THEN Append(mine, txn) ELSE @[o]]]
          /\ TxSend(sent.lines)
          /\ MESSAGE_ID' = [MESSAGE_ID EXCEPT ![n] = r.counter]
          /\ tx_op' = TxCall(n, state, order, operations, r.env.message.operations)
  /\ local_xid' = [local_xid EXCEPT ![n] = fetch_add(@).new]
  /\ tx_count' = tx_count + 1
  /\ UNCHANGED <<tx_phase, tx_pinged, notTxVars>>

\* Message::Transactions
TxTransactions(n, env) ==
  /\ env \in tx_network /\ env.dest = n
  /\ env.message.type = "transactions"
  /\ tx_phase[n] = "running"
  /\ node_transactions' =
       [node_transactions EXCEPT ![n] = merge_transactions(@, env.message.transactions)]
  /\ tx_network' = tx_network \ {env}
  /\ UNCHANGED <<MESSAGE_ID, tx_phase, local_xid, tx_pinged, tx_op, tx_count, notTxVars>>

\* the filter that leaves out the comparison with first_xid
own_from_mutant_all(node_txns, local_node, first_xid) ==
  IF local_node \in DOMAIN node_txns THEN node_txns[local_node] ELSE << >>

\* the transactions of the PollTransactions arm: those of
\* node_transactions.get(&local_node) with transaction_id >= first_xid, or vec![]
own_from(node_txns, local_node, first_xid) ==
  IF local_node \in DOMAIN node_txns
  THEN SelectSeq(node_txns[local_node], LAMBDA txn : txn.transaction_id >= first_xid)
  ELSE << >>

\* Message::PollTransactions
TxPollTransactions(n, env) ==
  /\ env \in tx_network /\ env.dest = n
  /\ env.message.type = "poll_transactions"
  /\ tx_phase[n] = "running"
  /\ LET transactions == own_from(node_transactions[n], n, env.message.first_xid)
         r == EnvelopeReply(MESSAGE_ID[n], env,
                [type |-> "transactions", transactions |-> transactions])
     IN /\ tx_network' = (tx_network \ {env}) \cup {r.env}
        /\ MESSAGE_ID' = [MESSAGE_ID EXCEPT ![n] = r.counter]
  /\ UNCHANGED <<tx_phase, node_transactions, local_xid, tx_pinged, tx_op, tx_count, notTxVars>>

InitTxn ==
  /\ MESSAGE_ID = [n \in TxnNodes |-> 0]
  /\ tx_phase = [n \in TxnNodes |-> "start"]
  /\ node_transactions = [n \in TxnNodes |-> << >>]
  /\ local_xid = [n \in TxnNodes |-> 0]
  /\ tx_pinged = [n \in TxnNodes |-> FALSE]
  /\ tx_network = {}
  /\ tx_op = NoTxCall
  /\ tx_count = 0
  /\ NotTxIdle

NextTxn ==
  \/ \E n \in TxnNodes : TxInit(n)
  \/ \E n \in TxnNodes : TxPinger(n)
  \/ \E n \in TxnNodes, operations \in OpLists(1..MaxKey, MaxOps) \ { << >> } :
       TxTxn(n, operations)
  \/ \E n \in TxnNodes, env \in tx_network : TxTransactions(n, env)
  \/ \E n \in TxnNodes, env \in tx_network : TxPollTransactions(n, env)

SpecTxn == InitTxn /\ [][NextTxn]_vars

(* ------------------------------------------------------------------ *)
(* The fill-in loop of the Txn arm on its own: a rolled-up state and   *)
(* the operations of a request                                         *)
(* ------------------------------------------------------------------ *)
FillStates ==
  UNION { [keys -> 1..MaxWritten] : keys \in SUBSET (1..MaxFillKey) }

FillCall(view, request, reply) ==
  [node |-> "n1", store |-> << >>, view |-> view, order |-> << >>,
   request |-> request, reply |-> reply]

TxFill ==
  /\ tx_count = 0
  /\ tx_op' = FillCall(tx_op.view, tx_op.request, fill_in(tx_op.view, tx_op.request))
  /\ tx_count' = 1
  /\ UNCHANGED <<MESSAGE_ID, tx_phase, node_transactions, local_xid, tx_pinged,
                 tx_network, notTxVars>>

InitTxnFill ==
  /\ MESSAGE_ID = Unused
  /\ tx_phase = Unused /\ node_transactions = Unused /\ local_xid = Unused
  /\ tx_pinged = Unused /\ tx_network = Unused
  /\ tx_count = 0
  /\ \E view \in FillStates, request \in OpLists(1..MaxFillKey, MaxFillOps) \ { << >> } :
       tx_op = FillCall(view, request, << >>)
  /\ NotTxIdle

NextTxnFill == TxFill

SpecTxnFill == InitTxnFill /\ [][NextTxnFill]_vars

(* ------------------------------------------------------------------ *)
(* Claims about txn.rs                                                 *)
(* ------------------------------------------------------------------ *)
\* operation i of the request writes key k and no operation between i and j does
LastWriteBefore(request, i, j, k) ==
  /\ i < j
  /\ request[i].optype = "w" /\ request[i].key = k
  /\ \A m \in (i + 1)..(j - 1) : ~(request[m].optype = "w" /\ request[m].key = k)

\* C12: in the reply to one txn request, a read of key k that follows a write
\* of v to k in the same operation list, with no write to k in between, carries
\* v, whatever the state rolled up from the store holds for k.
C12_ReadYourWrites ==
  tx_op.reply # << >> =>
    /\ Len(tx_op.reply) = Len(tx_op.request)
    /\ \A j \in DOMAIN tx_op.request :
         /\ tx_op.reply[j].optype = tx_op.request[j].optype
         /\ tx_op.reply[j].key = tx_op.request[j].key
         /\ \A i \in DOMAIN tx_op.request :
              ( /\ tx_op.request[j].optype = "r"
                /\ LastWriteBefore(tx_op.request, i, j, tx_op.request[j].key) )
              => tx_op.reply[j].value = tx_op.request[i].value

\* a request that writes k twice and then reads it, answered while the state
\* rolled up from the store holds a third outcome for k
C12_Witness ==
  /\ tx_op.reply # << >>
  /\ Len(tx_op.request) = 3
  /\ tx_op.request[1].optype = "w" /\ tx_op.request[2].optype = "w"
  /\ tx_op.request[3].optype = "r"
  /\ tx_op.request[1].key = tx_op.request[3].key
  /\ tx_op.request[2].key = tx_op.request[3].key
  /\ tx_op.request[1].value # tx_op.request[2].value
  /\ tx_op.request[3].key \in DOMAIN tx_op.view
  /\ tx_op.view[tx_op.request[3].key] # tx_op.request[2].value
  /\ tx_op.reply[3].value = tx_op.request[2].value

\* x is applied before y: smaller xid first, the origin breaks a tie
\* (the origins are the strings "n1", "n2", compared through their place in TxnNodeIds)
AppliedBefore(x, y) ==
  \/ x.transaction_id < y.transaction_id
  \/ /\ x.transaction_id = y.transaction_id
     /\ IndexOf(TxnNodeIds, x.node) < IndexOf(TxnNodeIds, y.node)

\* every transaction of the store, of every origin
AllTransactions(store) ==
  UNION { { store[o][i] : i \in DOMAIN store[o] } : o \in DOMAIN store }

\* the transactions of the store in application order
InXidOrder(store) ==
  LET all == AllTransactions(store) IN
  CHOOSE s \in [1..Cardinality(all) -> all] :
    /\ \A t \in all : \E i \in DOMAIN s : s[i] = t
    /\ \A i, j \in DOMAIN s : i < j => AppliedBefore(s[i], s[j])

\* C13 (as stated): the state from which a txn request's reads are answered is
\* the fold of the writes of every known transaction in xid order across the
\* origins, the origin breaking ties, whatever the order in which the
\* per-origin maps are combined.
C13_ViewIsXidOrderedFold ==
  tx_op.node # "" => tx_op.view = roll_up_transactions(InXidOrder(tx_op.store))

\* 1 + the highest xid node n holds from peer p, 0 if it holds none
NextXidFrom(n, p) ==
  IF p \in DOMAIN node_transactions[n] /\ node_transactions[n][p] # << >>
  THEN 1 + max_transaction_id(node_transactions[n][p])
  ELSE 0

\* C25 (as stated, for the polls a node does send): a poll_transactions that
\* node n sends to peer p carries first_xid = 1 + the highest xid n holds
\* from p at that time, or 0 if it holds none.
C25_PollFromNextXid ==
  [][ \A env \in tx_network' \ tx_network :
        env.message.type = "poll_transactions"
          => env.message.first_xid = NextXidFrom(env.src, env.dest) ]_vars


\* the transactions of the store with a write to key k
Writers(store, k) ==
  { t \in AllTransactions(store) :
      \E i \in DOMAIN t.operations :
        t.operations[i].optype = "w" /\ t.operations[i].key = k }

\* operation i is the request's last write to key k
LastWriteOf(request, i, k) ==
  /\ request[i].optype = "w" /\ request[i].key = k
  /\ \A m \in (i + 1)..Len(request) : ~(request[m].optype = "w" /\ request[m].key = k)

\* operation j reads key k and no operation before it writes k
ReadBeforeWrite(request, j, k) ==
  /\ request[j].optype = "r" /\ request[j].key = k
  /\ \A m \in 1..(j - 1) : ~(request[m].optype = "w" /\ request[m].key = k)

\* C34: a node reads its own latest write: when the last txn answered was
\* answered by node n and wrote v to key k last, and n has received no
\* transaction writing k since, the next txn at n that reads k before writing
\* it is answered with v.
C34_ReadsOwnLatestWrite ==
  [][ \A n \in TxnNodes :
        ( /\ tx_count' = tx_count + 1
          /\ tx_op.node = n /\ tx_op'.node = n )
        => \A k \in 1..MaxKey :
           \A i \in DOMAIN tx_op.request :
           \A j \in DOMAIN tx_op'.request :
             ( /\ LastWriteOf(tx_op.request, i, k)
               /\ ReadBeforeWrite(tx_op'.request, j, k)
               /\ \A t \in Writers(node_transactions[n], k) \ Writers(tx_op.store, k) :
                    t.node = n )
             => tx_op'.reply[j].value = tx_op.request[i].value
    ]_vars
(* ------------------------------------------------------------------ *)
(* unique-ids.rs: every process runs main's loop over the lines of     *)
(* stdin; the harness sends init before anything else.                 *)
(* ------------------------------------------------------------------ *)
\* generate requests clients make, over all processes
MaxGenerates == 4

UidNodes == {"n1", "n2", "n3"}

\* format!("{}.{}", my_node_id, next_id) that leaves the node id out
format_id_mutant_no_node(node_id, next_id) == "." \o ToString(next_id)
\* format!("{}.{}", my_node_id, next_id)
format_id(node_id, next_id) == node_id \o "." \o ToString(next_id)

\* Message::Init
UidInit(n) ==
  /\ my_node_id[n] = ""
  /\ LET env == [src |-> Client, dest |-> n, msg_id |-> 1, in_reply_to |-> None,
                 message |-> [type |-> "init"]]
         r == EnvelopeReply(MESSAGE_ID[n], env, [type |-> "init_ok"])
     IN MESSAGE_ID' = [MESSAGE_ID EXCEPT ![n] = r.counter]
  /\ my_node_id' = [my_node_id EXCEPT ![n] = n]
  /\ UNCHANGED <<ID, uid_replies, notUidVars>>

\* Message::Generate
UidGenerate(n) ==
  /\ my_node_id[n] # ""
  /\ Len(uid_replies) < MaxGenerates
  /\ LET next_id == fetch_add(ID[n])
         env == [src |-> Client, dest |-> n, msg_id |-> 10 + Len(uid_replies),
                 in_reply_to |-> None, message |-> [type |-> "generate"]]
         r == EnvelopeReply(MESSAGE_ID[n], env,
                [type |-> "generate_ok", id |-> format_id(my_node_id[n], next_id.old)])
     IN /\ ID' = [ID EXCEPT ![n] = next_id.new]
        /\ MESSAGE_ID' = [MESSAGE_ID EXCEPT ![n] = r.counter]
        /\ uid_replies' = Append(uid_replies, r.env)
  /\ UNCHANGED <<my_node_id, notUidVars>>

InitUniqueIds ==
  /\ MESSAGE_ID = [n \in UidNodes |-> 0]
  /\ ID = [n \in UidNodes |-> 0]
  /\ my_node_id = [n \in UidNodes |-> ""]
  /\ uid_replies = << >>
  /\ NotUidIdle

NextUniqueIds ==
  \/ \E n \in UidNodes : UidInit(n)
  \/ \E n \in UidNodes : UidGenerate(n)

SpecUniqueIds == InitUniqueIds /\ [][NextUniqueIds]_vars

(* ------------------------------------------------------------------ *)
(* Claims about unique-ids.rs                                          *)
(* ------------------------------------------------------------------ *)
\* the number of generate_ok replies the process of reply i wrote before it
EarlierOf(i) ==
  Cardinality({ j \in 1..(i - 1) : uid_replies[j].src = uid_replies[i].src })

\* C14: the k-th generate request a process handles (k from 0) is answered
\* with "<node_id>.<k>", and the ids of all generate_ok replies of the cluster
\* are pairwise distinct.
C14_IdsDistinct ==
  /\ \A i \in DOMAIN uid_replies :
       uid_replies[i].message.id = uid_replies[i].src \o "." \o ToString(EarlierOf(i))
  /\ Cardinality({ uid_replies[i].message.id : i \in DOMAIN uid_replies })
       = Len(uid_replies)

\* two processes have each answered two generate requests
C14_Witness ==
  /\ Len(uid_replies) = MaxGenerates
  /\ \E i, j \in DOMAIN uid_replies :
       /\ uid_replies[i].src # uid_replies[j].src
       /\ EarlierOf(i) = 1 /\ EarlierOf(j) = 1

(* ------------------------------------------------------------------ *)
(* End of input.  One process of one of the six binaries: the harness  *)
(* writes lines to its stdin and closes it; the thread that reads      *)
(* stdin and the main thread take their steps.  A process ends when    *)
(* main returns.  Only the control flow around stdin and the channel   *)
(* to main is kept: every line is a well-formed request, so no arm     *)
(* panics.                                                             *)
(* ------------------------------------------------------------------ *)
\* lines the harness writes before it closes stdin
MaxLines == 3

Binaries == {"broadcast", "counter", "kafka", "txn", "unique-ids", "echo"}
\* main itself iterates over stdin.lines()
ReadsInMain == {"unique-ids", "echo"}
\* read_stdin: a thread iterates over stdin.lines() once and returns
ReadsOnce == {"broadcast", "counter"}
\* InputHandler::start: a thread iterates over stdin.lines() inside loop { }
ReadsInLoop == {"kafka", "txn"}

\* the harness writes one more line
HarnessWrite ==
  /\ eof_open
  /\ eof_written < MaxLines
  /\ eof_written' = eof_written + 1
  /\ eof_stdin' = eof_stdin + 1
  /\ UNCHANGED <<eof_binary, eof_open, eof_reader, eof_channel, eof_main, notEofVars>>

\* the harness closes the stream
HarnessClose ==
  /\ eof_open
  /\ eof_open' = FALSE
  /\ UNCHANGED <<eof_binary, eof_stdin, eof_written, eof_reader, eof_channel, eof_main,
                 notEofVars>>

\* lines() yields a line: main handles it (unique-ids, echo), or the reading
\* thread sends the envelope into main's channel
ReadLine ==
  /\ eof_main # "exited"
  /\ eof_reader = "lines"
  /\ eof_stdin > 0
  /\ eof_stdin' = eof_stdin - 1
  /\ eof_channel' = IF eof_binary \in ReadsInMain THEN eof_channel ELSE eof_channel + 1
  /\ UNCHANGED <<eof_binary, eof_open, eof_written, eof_reader, eof_main, notEofVars>>

\* lines() yields None: the for loop over the lines ends.  In unique-ids and
\* echo main returns; read_stdin returns, which drops the channel's only
\* Sender; the InputHandler thread goes round its loop
ReaderEof ==
  /\ eof_main # "exited"
  /\ eof_reader = "lines"
  /\ eof_stdin = 0 /\ ~eof_open
  /\ eof_reader' = IF eof_binary \in ReadsInLoop THEN "loop" ELSE "returned"
  /\ eof_main' = IF eof_binary \in ReadsInMain THEN "exited" ELSE eof_main
  /\ UNCHANGED <<eof_binary, eof_open, eof_stdin, eof_written, eof_channel, notEofVars>>

\* loop { for line in stdin.lines() .. }: the next round of the outer loop
ReaderLoop ==
  /\ eof_main # "exited"
  /\ eof_reader = "loop"
  /\ eof_reader' = "lines"
  /\ UNCHANGED <<eof_binary, eof_open, eof_stdin, eof_written, eof_channel, eof_main,
                 notEofVars>>

\* main takes an envelope from its channel and handles it
MainRecv ==
  /\ eof_main = "recv"
  /\ eof_channel > 0
  /\ eof_channel' = eof_channel - 1
  /\ UNCHANGED <<eof_binary, eof_open, eof_stdin, eof_written, eof_reader, eof_main,
                 notEofVars>>

\* recv_timeout returns Err(Disconnected): the channel is empty and its
\* Sender is gone.  broadcast logs and sleeps, counter does nothing.  (main of
\* kafka and txn iterates over main_receiver.iter(), which blocks while the
\* InputHandler thread holds the Sender.)
MainDisconnected ==
  /\ eof_binary \in ReadsOnce
  /\ eof_main = "recv"
  /\ eof_channel = 0
  /\ eof_reader = "returned"
  /\ eof_main' = "disconnected"
  /\ UNCHANGED <<eof_binary, eof_open, eof_stdin, eof_written, eof_reader, eof_channel,
                 notEofVars>>

\* the rest of the iteration after the Disconnected arm (process_resends, the
\* CAS check), then the next round of main's loop
MainLoop ==
  /\ eof_main = "disconnected"
  /\ eof_main' = "recv"
  /\ UNCHANGED <<eof_binary, eof_open, eof_stdin, eof_written, eof_reader, eof_channel,
                 notEofVars>>

InitEof ==
  /\ eof_binary \in Binaries
  /\ eof_open = TRUE
  /\ eof_stdin = 0
  /\ eof_written = 0
  /\ eof_reader = "lines"
  /\ eof_channel = 0
  /\ eof_main = "recv"
  /\ MESSAGE_ID = Unused
  /\ NotEofIdle

NextEof ==
  \/ HarnessWrite
  \/ HarnessClose
  \/ ReadLine
  \/ ReaderEof
  \/ ReaderLoop
  \/ MainRecv
  \/ MainDisconnected
  \/ MainLoop

SpecEof == InitEof /\ [][NextEof]_vars

\* the threads of the process keep running; the harness need not do anything
FairEof ==
  /\ WF_vars(ReadLine) /\ WF_vars(ReaderEof) /\ WF_vars(ReaderLoop)
  /\ WF_vars(MainRecv) /\ WF_vars(MainDisconnected) /\ WF_vars(MainLoop)

FairSpecEof == SpecEof /\ FairEof

(* ------------------------------------------------------------------ *)
(* Claims about the end of input                                       *)
(* ------------------------------------------------------------------ *)
\* C15 (as stated): once stdin has reached its end, the process eventually
\* terminates, whichever binary it runs.
C15_EofTerminates == (~eof_open) ~> (eof_main = "exited")

(* ------------------------------------------------------------------ *)
(* kafka.rs: the reply to one poll, built from a transaction_log and   *)
(* the offsets of the poll.  The log is one main can hold: its xids    *)
(* are distinct and in increasing order.                               *)
(* ------------------------------------------------------------------ *)
\* xids, messages and polled offsets of the logs and polls drawn
MaxPrXid == 3
MaxPrMsg == 2
MaxPrOffset == 3
PrKeys == {"k1", "k2"}

\* the logs of length n whose xids increase
RECURSIVE PrLogs(_)
PrLogs(n) ==
  IF n = 0 THEN { << >> }
  ELSE { Append(l, [node |-> "n1", transaction_id |-> x, key |-> k, message |-> m]) :
           l \in { s \in PrLogs(n - 1) : Len(s) = n - 1 },
           x \in 1..MaxPrXid, k \in PrKeys, m \in 1..MaxPrMsg }
       \cup PrLogs(n - 1)

PrSorted(log) ==
  \A i, j \in DOMAIN log : i < j => log[i].transaction_id < log[j].transaction_id

PrOffsets == UNION { [keys -> 0..MaxPrOffset] : keys \in SUBSET PrKeys }

\* the body of while let Some(idx): the reply to the poll removed
PrPoll ==
  /\ pr_msgs = << >>
  /\ pr_msgs' = << poll_reply(pr_log, pr_offsets) >>
  /\ UNCHANGED <<pr_log, pr_offsets, notPrVars>>

InitPollReply ==
  /\ pr_log \in { l \in PrLogs(MaxPrXid) : PrSorted(l) }
  /\ pr_offsets \in PrOffsets
  /\ pr_msgs = << >>
  /\ MESSAGE_ID = Unused
  /\ NotPrIdle

NextPollReply == PrPoll

SpecPollReply == InitPollReply /\ [][NextPollReply]_vars

\* the pairs of the reply for key k: none when the reply has no entry for k
PairsOf(msgs, k) == IF k \in DOMAIN msgs THEN msgs[k] ELSE << >>

\* C17: the msgs of a poll_ok hold, for each requested key k, exactly the
\* (xid, msg) pairs of the log's transactions with key k and xid >= offsets[k],
\* each once and in increasing xid order (a requested key without such a
\* transaction has no pairs); a key that was not requested has no entry.
C17_PollOkContent ==
  \A r \in DOMAIN pr_msgs :
    /\ DOMAIN pr_msgs[r] \subseteq DOMAIN pr_offsets
    /\ \A k \in DOMAIN pr_offsets :
         LET pairs == PairsOf(pr_msgs[r], k)
             wanted == { << pr_log[i].transaction_id, pr_log[i].message >> :
                           i \in { j \in DOMAIN pr_log :
                                     /\ pr_log[j].key = k
                                     /\ pr_log[j].transaction_id >= pr_offsets[k] } }
         IN /\ { pairs[i] : i \in DOMAIN pairs } = wanted
            /\ Len(pairs) = Cardinality(wanted)
            /\ \A i, j \in DOMAIN pairs : i < j => pairs[i][1] < pairs[j][1]

\* a reply built from a log with both keys for a poll of k1 only, from an
\* offset above the log's first k1 transaction: k1 has one pair, one k1
\* transaction is left out, k2 has no entry
C17_Witness ==
  /\ Len(pr_msgs) = 1
  /\ DOMAIN pr_offsets = {"k1"} /\ pr_offsets["k1"] = 2
  /\ Len(pr_log) = 3
  /\ pr_log[1].key = "k1" /\ pr_log[2].key = "k2" /\ pr_log[3].key = "k1"
  /\ DOMAIN pr_msgs[1] = {"k1"}
  /\ Len(pr_msgs[1]["k1"]) = 1

\* every transaction_log of the cluster has distinct xids in increasing order
LogSortedAtEveryNode == \A n \in KafkaNodes : PrSorted(transaction_log[n])

(* ------------------------------------------------------------------ *)
(* An error reply of seq-kv.  The code that waits for a reply of       *)
(* seq-kv (main of counter.rs with a cas outstanding; the xid assigner *)
(* of kafka.rs in initialize_xid, try_cas or fetch_last_xid) takes an  *)
(* error with a given code.                                            *)
(* ------------------------------------------------------------------ *)
\* to_add of the counter when the reply arrives
MaxErToAdd == 2

\* the codes ErrorCode::from knows
ErrorCodes == {0, 1, 10, 11, 12, 13, 14, 20, 21, 22, 30}
\* a code it does not know
UnknownCodes == {99}

ErClients == {"counter", "initialize_xid", "try_cas", "fetch_last_xid"}

\* what handling the reply led to: a panic, or the requests sent to seq-kv
\* up to the next wait
ErOutcome(panic, sent) == [panic |-> panic, sent |-> sent]

ErReply(code) ==
  KvReply([src |-> "n1", dest |-> SEQ_KV, msg_id |-> 1, in_reply_to |-> None,
           message |-> [type |-> "cas"]],
          [type |-> "error", code |-> code])

\* counter.rs, Message::Error and the end of the iteration
ErCounter ==
  /\ er_client = "counter" /\ er_out = << >>
  /\ er_out' =
       << IF er_code \notin ErrorCodes
          THEN ErOutcome(TRUE, << >>)          \* ErrorCode::from panics
          ELSE IF er_code = PreconditionFailed
          THEN \* cas_outstanding = false, the read, then the CAS issue
               ErOutcome(FALSE, IF er_to_add # 0 THEN << "read", "cas" >> ELSE << "read" >>)
          ELSE ErOutcome(TRUE, << >>) >>       \* panic!("Unexpected error")
  /\ UNCHANGED <<er_client, er_code, er_to_add, notErVars>>

\* XidAssigner::initialize_xid on the reply to its cas
ErInitializeXid ==
  /\ er_client = "initialize_xid" /\ er_out = << >>
  /\ er_out' =
       << IF er_code = PreconditionFailed
          THEN ErOutcome(FALSE, << "read" >>)  \* fetch_last_xid
          ELSE ErOutcome(TRUE, << >>) >>
  /\ UNCHANGED <<er_client, er_code, er_to_add, notErVars>>

\* XidAssigner::try_cas on the reply to its cas, inside generate_xid
ErTryCas ==
  /\ er_client = "try_cas" /\ er_out = << >>
  /\ \E r \in {try_cas(0, ErReply(er_code))} :
       er_out' =
         << IF r.panic THEN ErOutcome(TRUE, << >>)
            ELSE IF r.xid = None THEN ErOutcome(FALSE, << "read" >>)  \* fetch_last_xid
            ELSE ErOutcome(FALSE, << >>) >>
  /\ UNCHANGED <<er_client, er_code, er_to_add, notErVars>>

\* XidAssigner::fetch_last_xid on the reply to its read
ErFetchLastXid ==
  /\ er_client = "fetch_last_xid" /\ er_out = << >>
  /\ er_out' = << ErOutcome(TRUE, << >>) >>    \* Expected read_ok
  /\ UNCHANGED <<er_client, er_code, er_to_add, notErVars>>

InitKvError ==
  /\ er_client \in ErClients
  /\ er_code \in ErrorCodes \cup UnknownCodes
  /\ er_to_add \in 0..MaxErToAdd
  /\ er_client # "counter" => er_to_add = 0
  /\ er_out = << >>
  /\ MESSAGE_ID = Unused
  /\ NotErIdle

NextKvError ==
  \/ ErCounter
  \/ ErInitializeXid
  \/ ErTryCas
  \/ ErFetchLastXid

SpecKvError == InitKvError /\ [][NextKvError]_vars

\* the reply answers a cas
ErAnswersCas == er_client \in {"counter", "initialize_xid", "try_cas"}

\* C24 (as stated): on PreconditionFailed in reply to a cas the process goes
\* on and reads the key again; on KeyDoesNotExist it goes on without
\* aborting; on every other error code it aborts.
C24_ErrorRecovery ==
  \A i \in DOMAIN er_out :
    /\ (er_code = PreconditionFailed /\ ErAnswersCas)
         => ~er_out[i].panic /\ er_out[i].sent # << >> /\ er_out[i].sent[1] = "read"
    /\ er_code = KeyDoesNotExist => ~er_out[i].panic
    /\ er_code \notin {PreconditionFailed, KeyDoesNotExist} => er_out[i].panic

(* ------------------------------------------------------------------ *)
(* The PollTransactions arm of kafka.rs and of txn.rs on its own: a      *)
(* store the node can hold and a first_xid are drawn, the arm writes     *)
(* its reply.                                                            *)
(* ------------------------------------------------------------------ *)

MaxPtXid == 3
PtLocal == "n1"
PtNodes == {"n1", "n2"}

\* the transactions of the kafka.rs arm: those of transaction_log with
\* transaction_id >= first_xid and node == local_node
own_log_from(log, local_node, first_xid) ==
  SelectSeq(log, LAMBDA txn : txn.transaction_id >= first_xid /\ txn.node = local_node)

\* kafka.rs: the sorted logs over the xids 1..x, each of either origin
RECURSIVE PtLogs(_)
PtLogs(x) ==
  IF x = 0 THEN { << >> }
  ELSE LET shorter == PtLogs(x - 1) IN
       shorter \cup
       { Append(l, [node |-> o, transaction_id |-> x, key |-> "k1", message |-> 10 + x]) :
           l \in shorter, o \in PtNodes }

\* txn.rs: the sorted Vecs of origin o over the xids 0..x-1
RECURSIVE PtVecs(_, _)
PtVecs(o, x) ==
  IF x = 0 THEN { << >> }
  ELSE LET shorter == PtVecs(o, x - 1) IN
       shorter \cup
       { Append(l, [node |-> o, transaction_id |-> x - 1, operations |-> << >>]) :
           l \in shorter }

\* txn.rs: the node's own Vec holds its xids from 0 without a gap, a peer's
\* Vec any of the peer's; an origin has an entry once it has a transaction
PtStores ==
  { s \in UNION { [os -> PtVecs("n1", MaxPtXid) \cup PtVecs("n2", MaxPtXid)] :
                    os \in SUBSET PtNodes } :
      \A o \in DOMAIN s :
        /\ s[o] # << >>
        /\ \A i \in DOMAIN s[o] : s[o][i].node = o
        /\ o = PtLocal => \A i \in DOMAIN s[o] : s[o][i].transaction_id = i - 1 }

PtReply(transactions) == [type |-> "transactions", transactions |-> transactions]

\* Message::PollTransactions of kafka.rs
PtKafka ==
  /\ pt_binary = "kafka" /\ pt_reply = << >>
  /\ pt_reply' = << PtReply(own_log_from(pt_store, PtLocal, pt_first_xid)) >>
  /\ UNCHANGED <<pt_binary, pt_store, pt_first_xid, notPtVars>>

\* Message::PollTransactions of txn.rs
PtTxn ==
  /\ pt_binary = "txn" /\ pt_reply = << >>
  /\ pt_reply' = << PtReply(own_from(pt_store, PtLocal, pt_first_xid)) >>
  /\ UNCHANGED <<pt_binary, pt_store, pt_first_xid, notPtVars>>

InitPollTransactions ==
  /\ \/ pt_binary = "kafka" /\ pt_store \in PtLogs(MaxPtXid)
     \/ pt_binary = "txn" /\ pt_store \in PtStores
  /\ pt_first_xid \in 0..(MaxPtXid + 1)
  /\ pt_reply = << >>
  /\ MESSAGE_ID = Unused
  /\ NotPtIdle

NextPollTransactions == PtKafka \/ PtTxn

SpecPollTransactions == InitPollTransactions /\ [][NextPollTransactions]_vars

\* every transaction the node holds, of every origin
PtHeld ==
  IF pt_binary = "kafka" THEN { pt_store[i] : i \in DOMAIN pt_store }
  ELSE AllTransactions(pt_store)

\* C26: the answer to poll_transactions{first_xid} is one transactions message
\* whose list holds exactly the transactions the node originated itself with
\* transaction_id >= first_xid, each once (the empty list when there is none),
\* and no transaction of another origin.
C26_PollTransactionsReply ==
  /\ Len(pt_reply) <= 1
  /\ \A r \in DOMAIN pt_reply :
       LET transactions == pt_reply[r].transactions
           wanted == { t \in PtHeld : t.node = PtLocal /\ t.transaction_id >= pt_first_xid }
       IN /\ pt_reply[r].type = "transactions"
          /\ { transactions[i] : i \in DOMAIN transactions } = wanted
          /\ Len(transactions) = Cardinality(wanted)

\* txn.rs has answered a poll from first_xid 1 while it held its own xids 0
\* and 1 and the peer's xid 1: the reply is its own xid 1 alone
C26_Witness ==
  /\ pt_binary = "txn" /\ pt_first_xid = 1 /\ Len(pt_reply) = 1
  /\ DOMAIN pt_store = PtNodes
  /\ Len(pt_store["n1"]) = 2
  /\ \E i \in DOMAIN pt_store["n2"] : pt_store["n2"][i].transaction_id = 1
  /\ Len(pt_reply[1].transactions) = 1
  /\ pt_reply[1].transactions[1].node = "n1"

(* ------------------------------------------------------------------ *)
(* The Transactions arm of kafka.rs and of txn.rs on its own: a log and  *)
(* two transactions messages are drawn, and the messages are delivered   *)
(* in any order, each any number of times up to MaxDeliver deliveries.   *)
(* ------------------------------------------------------------------ *)

MaxDeliver == 3
MaxMgLen == 2

\* kafka.rs: the xids come from the CAS on seq-kv and belong to one origin each
MgKafkaTxns ==
  { [node |-> "n1", transaction_id |-> 1, key |-> "k1", message |-> 11],
    [node |-> "n2", transaction_id |-> 2, key |-> "k1", message |-> 12],
    [node |-> "n1", transaction_id |-> 3, key |-> "k2", message |-> 13] }

\* txn.rs: every origin counts its xids from 0
MgTxnTxns ==
  { [node |-> o, transaction_id |-> x, operations |-> << >>] :
      o \in {"n1", "n2"}, x \in 0..1 }

\* the lists of at most MaxMgLen transactions of U, each once, in any order
MgLists(U) ==
  { l \in UNION { [1..k -> U] : k \in 0..MaxMgLen } :
      \A i, j \in DOMAIN l : i # j => l[i] # l[j] }

\* the set S as a Vec in increasing transaction_id order
RECURSIVE MgSorted(_)
MgSorted(S) ==
  IF S = {} THEN << >>
  ELSE LET t == CHOOSE t \in S : \A u \in S : t.transaction_id <= u.transaction_id
       IN << t >> \o MgSorted(S \ {t})

\* kafka.rs: the sorted logs over MgKafkaTxns
MgLogs == { MgSorted(S) : S \in SUBSET MgKafkaTxns }

\* txn.rs: the maps with a sorted Vec for every origin that has a transaction
MgStores ==
  { [o \in { t.node : t \in S } |-> MgSorted({ t \in S : t.node = o })] :
      S \in SUBSET MgTxnTxns }

\* Message::Transactions of kafka.rs
MgKafka(m) ==
  /\ mg_binary = "kafka" /\ Len(mg_done) < MaxDeliver
  /\ mg_store' = sort_unstable(push_new(mg_store, mg_msgs[m]))
  /\ mg_done' = Append(mg_done, m)
  /\ UNCHANGED <<mg_binary, mg_first, mg_msgs, notMgVars>>

\* Message::Transactions of txn.rs
MgTxn(m) ==
  /\ mg_binary = "txn" /\ Len(mg_done) < MaxDeliver
  /\ mg_store' = merge_transactions(mg_store, mg_msgs[m])
  /\ mg_done' = Append(mg_done, m)
  /\ UNCHANGED <<mg_binary, mg_first, mg_msgs, notMgVars>>

InitMerge ==
  /\ \/ /\ mg_binary = "kafka"
        /\ mg_first \in MgLogs
        /\ mg_msgs \in [1..2 -> MgLists(MgKafkaTxns)]
     \/ /\ mg_binary = "txn"
        /\ mg_first \in MgStores
        /\ mg_msgs \in [1..2 -> MgLists(MgTxnTxns)]
  /\ mg_store = mg_first
  /\ mg_done = << >>
  /\ MESSAGE_ID = Unused
  /\ NotMgIdle

NextMerge == \E m \in 1..2 : MgKafka(m) \/ MgTxn(m)

SpecMerge == InitMerge /\ [][NextMerge]_vars

\* the transactions of a log, of every origin
MgHeld(store) ==
  IF mg_binary = "kafka" THEN { store[i] : i \in DOMAIN store }
  ELSE AllTransactions(store)

\* the transactions of origin o in a log, in the log's order
MgOf(store, o) ==
  IF mg_binary = "kafka" THEN SelectSeq(store, LAMBDA t : t.node = o)
  ELSE IF o \in DOMAIN store THEN store[o] ELSE << >>

\* the transactions of the messages delivered so far
MgDelivered ==
  UNION { { mg_msgs[mg_done[d]][i] : i \in DOMAIN mg_msgs[mg_done[d]] } : d \in DOMAIN mg_done }

\* C27: after any deliveries the log holds exactly the transactions it held
\* at first and those of the messages delivered, each identity (origin, xid)
\* once and every origin's list in increasing xid order: it depends on which
\* messages were delivered, not on how often or in which order, and nothing
\* known is lost.
C27_MergeByIdentity ==
  /\ MgHeld(mg_store) = MgHeld(mg_first) \cup MgDelivered
  /\ \A o \in {"n1", "n2"} :
       LET txns == MgOf(mg_store, o) IN
       /\ \A i, j \in DOMAIN txns : i < j => txns[i].transaction_id < txns[j].transaction_id
       /\ \A i \in DOMAIN txns : txns[i].node = o
  /\ mg_binary = "txn" => \A o \in DOMAIN mg_store : mg_store[o] # << >>

\* txn.rs held n1's xid 1; the first message (n1's xid 0 and the known xid 1)
\* was delivered twice around the second (n2's xid 0): both origins' lists are
\* complete and n1's is sorted
C27_Witness ==
  /\ mg_binary = "txn"
  /\ mg_done = << 1, 2, 1 >>
  /\ DOMAIN mg_first = {"n1"} /\ Len(mg_first["n1"]) = 1
  /\ mg_first["n1"][1].transaction_id = 1
  /\ Len(mg_msgs[1]) = 2
  /\ mg_msgs[1][1].node = "n1" /\ mg_msgs[1][1].transaction_id = 1
  /\ mg_msgs[1][2].node = "n1" /\ mg_msgs[1][2].transaction_id = 0
  /\ Len(mg_msgs[2]) = 1 /\ mg_msgs[2][1].node = "n2"
  /\ Len(mg_store["n1"]) = 2 /\ Len(mg_store["n2"]) = 1

(* ------------------------------------------------------------------ *)
(* Panics: the threads of one process of any binary. A running thread    *)
(* may panic at any of its unwrap, panic! and unimplemented! sites; what *)
(* follows depends on the panic hook and on which thread it was.         *)
(* ------------------------------------------------------------------ *)

MaxPnWork == 2

\* kafka.rs and txn.rs: main begins with panic::set_hook(orig_hook, then
\* process::exit(1)); the other binaries keep the default hook
HasPanicHook == {"kafka", "txn"}

\* the threads main spawns, in the order of the thread::spawn calls
PnSpawns(binary) ==
  IF binary \in ReadsInMain THEN << >>
  ELSE IF binary \in ReadsOnce THEN << "reader" >>
  ELSE IF binary = "kafka" THEN << "output", "input", "assigner" >>
  ELSE << "output", "input", "pinger" >>

\* the threads whose closure can come to its end: read_stdin and the main of
\* echo and unique-ids at the end of input, the pinger after its one pass
PnReturns(binary) ==
  IF binary \in ReadsInMain THEN {"main"}
  ELSE IF binary \in ReadsOnce THEN {"reader"}
  ELSE IF binary = "txn" THEN {"pinger"}
  ELSE {}

PnAlive(t) ==
  pn_process = "running" /\ t \in DOMAIN pn_threads /\ pn_threads[t] = "running"

\* thread::spawn: main starts the next of its threads
PnSpawn ==
  /\ PnAlive("main")
  /\ Cardinality(DOMAIN pn_threads) - 1 < Len(PnSpawns(pn_binary))
  /\ LET t == PnSpawns(pn_binary)[Cardinality(DOMAIN pn_threads)] IN
       /\ pn_threads' = [u \in DOMAIN pn_threads \cup {t} |->
                           IF u = t THEN "running" ELSE pn_threads[u]]
       /\ pn_work' = [u \in DOMAIN pn_threads \cup {t} |->
                        IF u = t THEN 0 ELSE pn_work[u]]
  /\ UNCHANGED <<pn_binary, pn_process, notPnVars>>

\* one iteration of a thread's loop that does not panic
PnWork(t) ==
  /\ PnAlive(t)
  /\ pn_work[t] < MaxPnWork
  /\ pn_work' = [pn_work EXCEPT ![t] = @ + 1]
  /\ UNCHANGED <<pn_binary, pn_threads, pn_process, notPnVars>>

\* a thread panics: the hook of kafka.rs and txn.rs exits the process; with
\* the default hook the thread unwinds, which ends the process only when the
\* thread is main
PnPanic(t) ==
  /\ PnAlive(t)
  /\ pn_threads' = [pn_threads EXCEPT ![t] = "panicked"]
  /\ pn_process' = IF pn_binary \in HasPanicHook \/ t = "main"
                   THEN "exited_nonzero" ELSE pn_process
  /\ UNCHANGED <<pn_binary, pn_work, notPnVars>>

\* a thread's closure returns; when main returns the process exits with 0
PnReturn(t) ==
  /\ PnAlive(t)
  /\ t \in PnReturns(pn_binary)
  /\ pn_threads' = [pn_threads EXCEPT ![t] = "returned"]
  /\ pn_process' = IF t = "main" THEN "exited_zero" ELSE pn_process
  /\ UNCHANGED <<pn_binary, pn_work, notPnVars>>

InitPanic ==
  /\ pn_binary \in Binaries
  /\ pn_threads = [t \in {"main"} |-> "running"]
  /\ pn_work = [t \in {"main"} |-> 0]
  /\ pn_process = "running"
  /\ MESSAGE_ID = Unused
  /\ NotPnIdle

PnThreadNames == {"main", "reader", "output", "input", "assigner", "pinger"}

NextPanic ==
  \/ PnSpawn
  \/ \E t \in PnThreadNames : PnWork(t) \/ PnPanic(t) \/ PnReturn(t)

SpecPanic == InitPanic /\ [][NextPanic]_vars

\* C28: in every binary, once a thread has panicked the process has exited
\* with a non-zero status: no thread is dead of a panic while the process runs.
C28_PanicExitsProcess ==
  \A t \in DOMAIN pn_threads :
    pn_threads[t] = "panicked" => pn_process = "exited_nonzero"

\* the same for the binaries that install the hook
PanicExitsProcessWithHook ==
  pn_binary \in HasPanicHook => C28_PanicExitsProcess

(* ------------------------------------------------------------------ *)
(* The input pump of kafka.rs and txn.rs: the thread of                  *)
(* InputHandler::start, statement by statement, and new_receiver called  *)
(* from another thread at any time. Envelopes are numbered by the order  *)
(* in which they are parsed.                                             *)
(* ------------------------------------------------------------------ *)

MaxIpLines == 3
IpFirst == "main"
IpLater == {"xid_assigner", "other"}

\* the mutation of try_recv's arm: the new sender replaces the Vec
push_mutant_replaces(subscribers, r) == << r >>

\* subscribers.push(r)
push(subscribers, r) == Append(subscribers, r)

IpAt(at) == [at |-> at, idx |-> 0]

\* InputHandlerHandle::new_receiver: the sender goes into the channel
IpNewReceiver(s) ==
  /\ s \notin DOMAIN ip_registered
  /\ ip_pending' = Append(ip_pending, s)
  /\ ip_registered' = [u \in DOMAIN ip_registered \cup {s} |->
                         IF u = s THEN [taken |-> ip_taken, parsed |-> ip_parsed]
                         ELSE ip_registered[u]]
  /\ ip_received' = [u \in DOMAIN ip_received \cup {s} |->
                       IF u = s THEN << >> ELSE ip_received[u]]
  /\ UNCHANGED <<ip_pc, ip_taken, ip_parsed, ip_subscribers, notIpVars>>

\* for line in stdin.lines(): the iterator yields the next line
IpLine ==
  /\ ip_pc.at = "lines"
  /\ ip_taken < MaxIpLines
  /\ ip_taken' = ip_taken + 1
  /\ ip_pc' = IpAt("try_recv")
  /\ UNCHANGED <<ip_parsed, ip_pending, ip_subscribers, ip_received, ip_registered,
                 notIpVars>>

\* while let Ok(r) = new_subscriber_receiver.try_recv() { subscribers.push(r) }
IpTryRecvOk ==
  /\ ip_pc.at = "try_recv"
  /\ ip_pending # << >>
  /\ ip_subscribers' = push(ip_subscribers, Head(ip_pending))
  /\ ip_pending' = Tail(ip_pending)
  /\ UNCHANGED <<ip_pc, ip_taken, ip_parsed, ip_received, ip_registered, notIpVars>>

\* try_recv returns Err(Empty): the while let ends
IpTryRecvEmpty ==
  /\ ip_pc.at = "try_recv"
  /\ ip_pending = << >>
  /\ ip_pc' = IpAt("parse")
  /\ UNCHANGED <<ip_taken, ip_parsed, ip_pending, ip_subscribers, ip_received,
                 ip_registered, notIpVars>>

\* let env = serde_json::from_str(&line).unwrap()
IpParse ==
  /\ ip_pc.at = "parse"
  /\ ip_parsed' = ip_parsed + 1
  /\ ip_pc' = IF ip_subscribers = << >> THEN IpAt("lines") ELSE [at |-> "send", idx |-> 1]
  /\ UNCHANGED <<ip_taken, ip_pending, ip_subscribers, ip_received, ip_registered,
                 notIpVars>>

\* for subscriber in subscribers.iter(): subscriber.send(env.clone())
IpSend ==
  /\ ip_pc.at = "send"
  /\ LET s == ip_subscribers[ip_pc.idx] IN
       ip_received' = [ip_received EXCEPT ![s] = Append(@, ip_parsed)]
  /\ ip_pc' = IF ip_pc.idx = Len(ip_subscribers) THEN IpAt("lines")
              ELSE [ip_pc EXCEPT !.idx = @ + 1]
  /\ UNCHANGED <<ip_taken, ip_parsed, ip_pending, ip_subscribers, ip_registered,
                 notIpVars>>

\* InputHandler::start(vec![main_sender]): main's sender is in the Vec from
\* the start
InitInputPump ==
  /\ ip_pc = IpAt("lines")
  /\ ip_taken = 0 /\ ip_parsed = 0
  /\ ip_pending = << >>
  /\ ip_subscribers = << IpFirst >>
  /\ ip_received = [s \in {IpFirst} |-> << >>]
  /\ ip_registered = [s \in {IpFirst} |-> [taken |-> 0, parsed |-> 0]]
  /\ MESSAGE_ID = Unused
  /\ NotIpIdle

NextInputPump ==
  \/ \E s \in IpLater : IpNewReceiver(s)
  \/ IpLine
  \/ IpTryRecvOk
  \/ IpTryRecvEmpty
  \/ IpParse
  \/ IpSend

SpecInputPump == InitInputPump /\ [][NextInputPump]_vars

\* envelope k has been parsed and sent to every subscriber of the Vec
IpFannedOut(k) ==
  \/ k < ip_parsed
  \/ k = ip_parsed /\ ip_pc.at # "send"

\* what s received is a run of consecutive envelopes, in input order
IpInOrder(s) ==
  \A i \in DOMAIN ip_received[s] :
    i > 1 => ip_received[s][i] = ip_received[s][i - 1] + 1

IpHas(s, k) == \E i \in DOMAIN ip_received[s] : ip_received[s][i] = k

\* C29 as stated: every subscriber receives, in input order, every envelope
\* parsed after its registration and none parsed before it.
C29_EveryEnvelopeParsedAfter ==
  \A s \in DOMAIN ip_registered :
    /\ IpInOrder(s)
    /\ \A k \in 1..ip_parsed :
         /\ IpHas(s, k) => k > ip_registered[s].parsed
         /\ (IpFannedOut(k) /\ k > ip_registered[s].parsed) => IpHas(s, k)

\* C29, amended: every subscriber receives, in input order and without a gap,
\* every envelope whose line the pump took from stdin after the registration
\* and none parsed before the registration; the envelope of a line that was
\* taken and not yet parsed at the registration may or may not be among them.
C29_EveryEnvelopeTakenAfter ==
  \A s \in DOMAIN ip_registered :
    /\ IpInOrder(s)
    /\ \A k \in 1..ip_parsed :
         /\ IpHas(s, k) => k > ip_registered[s].parsed
         /\ (IpFannedOut(k) /\ k > ip_registered[s].taken) => IpHas(s, k)

\* the xid assigner registered after the first line was taken and before it
\* was parsed, and missed that envelope; main has all three envelopes, the
\* assigner the second and third
C29_Witness ==
  /\ "xid_assigner" \in DOMAIN ip_registered
  /\ ip_registered["xid_assigner"] = [taken |-> 1, parsed |-> 0]
  /\ ip_received["xid_assigner"] = << 2, 3 >>
  /\ ip_received[IpFirst] = << 1, 2, 3 >>

====
